---- MODULE Spec2Model ----
(***************************************************************************)
(* A model of the pi-browser agent session: Agent (history, cancellation   *)
(* handle, ready promise, prompt() async generator), ExtensionRegistry     *)
(* (tools, event listeners, user-input handler, load, emit) and the        *)
(* streaming client runAgent that prompt() drives.                         *)
(*                                                                         *)
(* Text is a sequence of string tokens; concatenation of text is \o.       *)
(* A message object is identified by its position in the history array     *)
(* (messages are only ever pushed), which lets a shallow copy of the       *)
(* history be a sequence of positions.                                     *)
(***************************************************************************)
EXTENDS Integers, Sequences, FiniteSets, TLC

\* ---------------------------------------------------------------- bounds
MaxTurns == 2        \* prompt() calls made on the Agent
MaxRounds == 1       \* tool-call rounds of one turn
MaxDeltas == 2       \* text_delta events of one turn
MaxCalls == 2        \* tool calls the model declares in one round
MaxReadyCalls == 2   \* ready() calls whose outcome is recorded
MaxLateTools == 2    \* tools registered after the extensions were loaded
MaxArgs == 4         \* words after the first one in an input of expand()
MaxPathLen == 4      \* characters of a path that is normalized
MaxFields == 2       \* fields of a user-input request
MaxSubs == 3         \* on("agent_event", handler) calls
MaxInFlight == 2     \* prompt() calls the Chat component has in flight
MaxRequests == 2     \* user-input requests that reach the Chat handler

\* ------------------------------------------------------------- constants
Null == 0

Turns == 1..MaxTurns

\* the text the remote model streams as the k-th fragment of a turn
Fragment == <<"a", "b", "c", "d">>

\* the handlers a presentation layer may install
Handlers == {1, 2}

\* listener functions that may throw when they are called
ThrowingListeners == {1}

\* AgentConfig.systemPrompt ?? DEFAULT_SYSTEM_PROMPT
BasePrompt == <<"base">>

\* AgentConfig.skills (none configured: the skill fragment is "")
ConfigSkills == <<>>

\* interface Skill; "" stands for a field that is missing or empty
Skill(name, description, content) ==
  [name |-> name, description |-> description, content |-> content]

\* the skills callers register: two names; a description or a content may
\* be missing
SkillPool ==
  { Skill(n, d, c) : n \in {"code-review", "tdd"}, d \in {"", "when"},
                     c \in {"", "steps-1", "steps-2"} }
  \cup { Skill("", "when", "steps-1") }

\* the skills arrays given to the constructor or to registerAll
SkillConfigs ==
  { <<>>,
    << Skill("code-review", "when", "steps-1") >>,
    << Skill("code-review", "when", "steps-1"),
       Skill("code-review", "when", "steps-2") >>,
    << Skill("tdd", "", "steps-1"), Skill("tdd", "when", "steps-2") >>,
    << Skill("", "when", "steps-1") >>,
    << Skill("tdd", "when", "steps-1"),
       Skill("code-review", "when", "steps-2") >> }

\* the names asked of read_skill
SkillNames == {"code-review", "tdd", "unknown"}

\* the names of the tools extensions register after they were loaded
LateToolNames == {"read", "search"}

\* AgentConfig.extensions: each registers one tool and one listener
ConfigExtensions ==
  << [tool |-> "ask_user", listener |-> 1],
     [tool |-> "run_code", listener |-> 2] >>

\* A text is the sequence of its whitespace-separated words.
\* AgentConfig.promptTemplates: /name |-> body
ConfigTemplates ==
  [name \in {"/greet", "/scaffold", "/slice"} |->
     CASE name = "/greet" -> <<"hello", "$1">>
       [] name = "/scaffold" ->
            <<"Project:", "$1", "(", "$2", ").", "Extra:", "${@:3}">>
       [] name = "/slice" ->
            <<"${@:2:2}", "|", "$@", "|", "$ARGUMENTS", "|", "$3", "|",
              "${@:2}">>]

\* the first words that have the form /name
SlashCommands == {"/greet", "/scaffold", "/slice", "/unknown"}

\* the words a caller types after the first one
Words == {"ts", "myapp", "with", "tests"}

\* the texts a caller passes to prompt(): a plain text and a slash command
\* that expands to the same text
Texts == { <<"hello", "bob">>, <<"/greet", "bob">> }

\* texts with a registered name, an unregistered name and no slash, and a
\* registered name with no argument
PromptTexts ==
  { <<"hello", "bob">>, <<"/greet", "bob">>, <<"/unknown", "bob">>,
    <<"/greet">> }

\* A path is the sequence of its characters.
PathChars == {"/", "a", "b"}

\* the paths handed to VirtualFS.normalize
AllPaths == UNION { [1..n -> PathChars] : n \in 0..MaxPathLen }

\* the paths callers and tools hand to the VirtualFS operations
FsPaths ==
  { <<"a", "/", "/", "b">>, <<"/", "a", "/", "b">>, <<"a", "/", "b", "/">>,
    <<"/", "a">>, <<"a">>, <<"/">> }

\* file contents, as sequences of words, and the texts the edit tool is
\* asked to find and to put in their place
Contents == { <<"x", "y">>, <<"y">> }
OldTexts == { <<"x">>, <<"y", "x">>, <<"z">> }
NewTexts == { <<"z">> }

\* createTools(fs)
\* the handler functions extensions pass to on("agent_event", handler)
ListenerFns == {1, 2}

\* a field of UserInputField that is not given
Undefined == "<undefined>"

\* UserInputField.type, and the defaultValue an extension may give
FieldTypes == {"confirm", "text"}
DefaultValues == {Undefined, "yes"}

\* interface UserInputField (name and label left out)
Field(type, defaultValue, required) ==
  [type |-> type, defaultValue |-> defaultValue, required |-> required]

FieldPool ==
  {Field(ty, d, r) : ty \in FieldTypes, d \in DefaultValues, r \in BOOLEAN}

\* UserInputRequest.fields: one to MaxFields fields
FormRequests ==
  UNION {[1..n -> FieldPool] : n \in 1..MaxFields}

\* the presentation layers that implement the user-input form
Integrations == {"UserInputForm", "+page.svelte"}

\* what a user may type into a text field
Typed == {"", "hi"}

BuiltinTools == <<"read", "write", "edit", "list">>

VARIABLES
  messages,          \* Agent.messages
  abortController,   \* Agent.abortController: Null or the turn that made it
  aborted,           \* the controllers whose signal has fired
  ready,             \* Agent._ready: "pending", "resolved", "rejected"
  loadIdx,           \* ExtensionRegistry.load: extensions it is done with
  invoked,           \* the extensions load() has called, in call order
  extRunning,        \* the extension load() is awaiting, Null if none
  failed,            \* the extensions that threw or rejected
  readySeen,         \* the outcomes of the ready() calls that have settled
  extTools,          \* ExtensionRegistry.tools
  eventListeners,    \* ExtensionRegistry.eventListeners
  userInputHandler,  \* ExtensionRegistry._requestUserInput
  lastHandler,       \* the argument of the last setUserInputHandler() call
  pc,                \* position of each prompt() generator
  ra,                \* position of each turn's runAgent generator
  queue,             \* events runAgent yields next without suspending
  rounds,            \* rounds runAgent has started in the turn
  ndeltas,           \* text fragments runAgent has received in the turn
  calls,             \* ids of the tool calls of the turn's current round
  toolList,          \* the tools argument runAgent was called with
  fullResponse,      \* prompt()'s local fullResponse
  observed,          \* the text_delta deltas the caller was handed, joined
  emittedEv,         \* the last event the turn passed to extensions.emit
  yieldedEv,         \* the last event the turn yielded to its caller
  lastEmit,          \* the listeners the last emit() was for and reached
  inputReq,          \* the requestUserInput() promise of the turn's tool
  servedBy,          \* the handler that promise was obtained from
  abortedMid,        \* turns that were streaming when abort() was called
  snap,              \* the array a caller got from getMessages()
  configSkills,      \* AgentConfig.skills the Agent was constructed with
  skillReg,          \* SkillRegistry.skills, in insertion order
  toolsSeen,         \* what the last access to Agent.tools returned
  readResult,        \* the ToolResult of the last read_skill execution
  expandInput,       \* the argument expand() is called with
  expandResult,      \* what that call returned
  files,             \* VirtualFS: the stored entries, path and content
  fsCall,            \* the last VirtualFS or tool call and what it returned
  runPc,             \* runAgent called on its own: position of the generator
  runRound,          \* requests it has sent to the remote endpoint
  runDeltas,         \* text fragments it has received
  runCalls,          \* the ToolCalls of its current round, in declared order
  runNext,           \* the call whose start or end event it yields next
  execState,         \* each call's execute(): "pending", "running", "settled"
  execResult,        \* the ToolResult each call's execution produced
  settled,           \* the calls whose execution settled, in settling order
  runEvents,         \* the events it has yielded, in order
  apiMessages,       \* the turns it appended for the next request
  signal             \* the AbortSignal: has it fired, and if so after how
                     \* many requests and at which position of runAgent

VARIABLES
  integration,       \* the presentation layer showing the user-input form
  fields,            \* request.fields of the request the form is for
  formValues,        \* the form's values (UserInputForm values, formValues)
  response           \* the UserInputResponse the promise was resolved with

VARIABLES
  subs,              \* the handler of each on() call made, in call order
  unsubscribed,      \* the on() calls whose unsubscribe function was called
  emitIdx,           \* emit(): index of the listener it calls next, 0 if
                     \* no emit() is running
  emitArr,           \* emit(): the array its loop iterates, once that is no
                     \* longer the array in eventListeners
  emitLive           \* emit(): its loop iterates the array in eventListeners

VARIABLES
  chatInput,         \* Chat: the input state (the text in the textarea)
  streaming,         \* Chat: the streaming state
  pendingInput,      \* Chat: the pendingInput state, Null or the request
                     \* whose resolve function it holds
  rendered,          \* Chat: the state values of the last render, which the
                     \* event handlers of the page have captured
  inFlight,          \* agent.prompt() generators Chat started and not over
  promises           \* the promise the Chat handler returned per request:
                     \* "none" (not requested), "pending", "resolved"

vars == << messages, abortController, aborted, ready, loadIdx, extTools,
           eventListeners, userInputHandler, pc, ra, queue, rounds, ndeltas,
           calls, toolList, fullResponse, observed, emittedEv, yieldedEv,
           lastEmit, inputReq, servedBy, abortedMid, snap, lastHandler, invoked,
           extRunning, failed, readySeen, configSkills, skillReg, toolsSeen,
           readResult, expandInput, expandResult, files, fsCall, runPc,
           runRound, runDeltas, runCalls, runNext, execState, execResult,
           settled, runEvents, apiMessages, signal, integration, fields,
           formValues, response, subs, unsubscribed, emitIdx, emitArr,
           emitLive, chatInput, streaming, pendingInput, rendered, inFlight,
           promises >>

agentVars == << messages, abortController >>
regVars == << extTools, eventListeners, userInputHandler, lastHandler >>
loadVars == << ready, loadIdx, invoked, extRunning, failed, readySeen >>
turnVars == << pc, ra, queue, rounds, ndeltas, calls, toolList, fullResponse,
               observed, emittedEv, yieldedEv, lastEmit >>
inputVars == << inputReq, servedBy >>
skillVars == << configSkills, skillReg, toolsSeen, readResult >>
tmplVars == << expandInput, expandResult >>
fsVars == << files, fsCall >>
runVars == << runPc, runRound, runDeltas, runCalls, runNext, execState,
             execResult, settled, runEvents, apiMessages, signal >>
formVars == << integration, fields, formValues, response >>
subVars == << subs, unsubscribed, emitIdx, emitArr, emitLive >>
chatVars == << chatInput, streaming, pendingInput, rendered, inFlight,
              promises >>
uiVars == << formVars, subVars, chatVars >>
libVars == << tmplVars, fsVars, runVars, uiVars >>

\* ------------------------------------------------------------ data types
Message(role, content) == [role |-> role, content |-> content]

Event(type, delta, call) == [type |-> type, delta |-> delta, call |-> call]

TextDeltaEv(d) == Event("text_delta", d, 0)
ToolStartEv(c) == Event("tool_call_start", <<>>, c)
ToolEndEv(c) == Event("tool_call_end", <<>>, c)
TurnEndEv == Event("turn_end", <<>>, 0)
ErrorEv == Event("error", <<>>, 0)
NoEvent == Event("none", <<>>, 0)

NoEmit == [to |-> <<>>, delivered |-> <<>>]

ToolResult(content, isError) == [content |-> content, isError |-> isError]

NoResult == ToolResult(<<"<none>">>, FALSE)

\* a ToolCall; result is NoResult until one is attached
ToolCall(id, result) == [id |-> id, result |-> result]

NoCall == ToolCall(0, NoResult)

\* an AgentEvent that carries its ToolCall as it is when yielded
RunEvent(type, toolCall) == [type |-> type, toolCall |-> toolCall]

\* a turn of the request: the assistant turn with its calls, or the result
\* turn of one call
ApiMessage(role, ids, result) == [role |-> role, ids |-> ids, result |-> result]

\* the AbortSignal before abort()
NotFired == [aborted |-> FALSE, requests |-> 0, at |-> "none"]

\* the ways a tool's execute(args) can end
Outcomes == {"ok", "failed", "threw"}

IsPrefix(s, t) == Len(s) <= Len(t) /\ SubSeq(t, 1, Len(s)) = s

RECURSIVE Flatten(_)
Flatten(ss) == IF ss = <<>> THEN <<>> ELSE Head(ss) \o Flatten(Tail(ss))

\* -------------------------------------------------------- skill registry
\* SkillRegistry.get: the skill stored under name, as a set of 0 or 1 skill
get(reg, name) == {reg[i] : i \in {k \in DOMAIN reg : reg[k].name = name}}

\* SkillRegistry.register: skip an invalid skill, keep the first of a name
registerUnchecked(reg, skill) ==
  IF get(reg, skill.name) # {} THEN reg ELSE Append(reg, skill)

registerLastWins(reg, skill) ==
  IF skill.name = "" \/ skill.description = "" \/ skill.content = ""
  THEN reg
  ELSE Append(SelectSeq(reg, LAMBDA s : s.name # skill.name), skill)

register(reg, skill) ==
  IF skill.name = "" \/ skill.description = "" \/ skill.content = ""
  THEN reg
  ELSE IF get(reg, skill.name) # {} THEN reg
  ELSE Append(reg, skill)

\* SkillRegistry.registerAll: register each skill, in order
RECURSIVE registerAll(_, _)
registerAll(reg, skills) ==
  IF skills = <<>> THEN reg
  ELSE registerAll(register(reg, Head(skills)), Tail(skills))

\* SkillRegistry.systemPromptFragment: "" when no skill is registered,
\* else a text that lists each skill's name and description
systemPromptFragmentAlways(skills) ==
  <<"\n", "The following skills", "<available_skills>">>
  \o Flatten([i \in 1..Len(skills) |->
                <<"<skill>", skills[i].name, "</skill>">>])
  \o <<"</available_skills>">>

systemPromptFragment(skills) ==
  IF Len(skills) = 0 THEN <<>>
  ELSE <<"\n", "The following skills", "<available_skills>">>
       \o Flatten([i \in 1..Len(skills) |->
                     <<"<skill>", skills[i].name, skills[i].description,
                       "</skill>">>])
       \o <<"</available_skills>">>

\* Agent constructor: base prompt, plus "\n" and the fragment if non-empty
SystemPrompt ==
  LET skillFragment == systemPromptFragment(registerAll(<<>>, configSkills))
  IN IF skillFragment # <<>> THEN BasePrompt \o <<"\n">> \o skillFragment
     ELSE BasePrompt

\* Agent.tools getter
ToolsAtConstruction ==
  IF Len(registerAll(<<>>, configSkills)) > 0
  THEN Append(BuiltinTools, "read_skill") ELSE BuiltinTools

Tools ==
  LET tools == BuiltinTools \o extTools
  IN IF Len(skillReg) > 0 THEN Append(tools, "read_skill") ELSE tools

\* createReadSkillTool().execute({ name }): the content of the skill, or an
\* error that lists the registered names ("none" when there is none)
readSkillNoFlag(reg, name) ==
  IF get(reg, name) = {} THEN ToolResult(<<>>, FALSE)
  ELSE LET skill == CHOOSE s \in get(reg, name) : TRUE
       IN ToolResult(<<skill.content>>, FALSE)

readSkill(reg, name) ==
  IF get(reg, name) = {}
  THEN LET available == [i \in 1..Len(reg) |-> reg[i].name]
       IN ToolResult(<<"Skill", name, "not found. Available skills:">>
                       \o (IF available # <<>> THEN available
                           ELSE <<"none">>),
                     TRUE)
  ELSE LET skill == CHOOSE s \in get(reg, name) : TRUE
       IN ToolResult(<<skill.content>>, FALSE)

\* ------------------------------------------------------ prompt templates
NoExpansion == <<"<null>">>

\* no call has returned yet
NotCalled == <<"<none>">>

\* the placeholder a word of a template body is, if it is one
Placeholder(tok) ==
  CASE tok = "$1" -> [kind |-> "positional", n |-> 1, l |-> 0]
    [] tok = "$2" -> [kind |-> "positional", n |-> 2, l |-> 0]
    [] tok = "$3" -> [kind |-> "positional", n |-> 3, l |-> 0]
    [] tok = "$@" -> [kind |-> "all", n |-> 0, l |-> 0]
    [] tok = "$ARGUMENTS" -> [kind |-> "all", n |-> 0, l |-> 0]
    [] tok = "${@:2}" -> [kind |-> "from", n |-> 2, l |-> 0]
    [] tok = "${@:3}" -> [kind |-> "from", n |-> 3, l |-> 0]
    [] tok = "${@:2:2}" -> [kind |-> "slice", n |-> 2, l |-> 2]
    [] OTHER -> [kind |-> "literal", n |-> 0, l |-> 0]

Min(a, b) == IF a <= b THEN a ELSE b

\* the text one word of a template body is replaced with: slices count
\* from zero
substituteZeroIndexed(tok, args) ==
  LET p == Placeholder(tok)
  IN CASE p.kind = "positional" ->
            IF p.n <= Len(args) THEN <<args[p.n]>> ELSE <<>>
       [] p.kind = "all" -> args
       [] p.kind = "from" -> SubSeq(args, p.n + 1, Len(args))
       [] p.kind = "slice" ->
            SubSeq(args, p.n + 1, Min(p.n + p.l, Len(args)))
       [] OTHER -> <<tok>>

\* the text one word of a template body is replaced with: $N is argument
\* N, $@ and $ARGUMENTS all arguments, ${@:N} the arguments from N on,
\* ${@:N:L} L arguments from N on; what is missing is the empty string
substitute(tok, args) ==
  LET p == Placeholder(tok)
  IN CASE p.kind = "positional" ->
            IF p.n <= Len(args) THEN <<args[p.n]>> ELSE <<>>
       [] p.kind = "all" -> args
       [] p.kind = "from" -> SubSeq(args, p.n, Len(args))
       [] p.kind = "slice" ->
            SubSeq(args, p.n, Min(p.n + p.l - 1, Len(args)))
       [] OTHER -> <<tok>>

\* PromptTemplateRegistry.expand: null unless the input starts with /name
\* and name is a registered template; else the body with its placeholders
\* replaced by the arguments
expand(text) ==
  IF text = <<>> \/ Head(text) \notin SlashCommands THEN NoExpansion
  ELSE IF Head(text) \notin DOMAIN ConfigTemplates THEN NoExpansion
  ELSE LET body == ConfigTemplates[Head(text)]
           args == Tail(text)
       IN Flatten([i \in 1..Len(body) |-> substitute(body[i], args)])

\* ------------------------------------------------------------ VirtualFS
\* the segments of a path: what is between its separators, empty pieces
\* left out
RECURSIVE Segments(_, _)
Segments(path, cur) ==
  IF path = <<>> THEN (IF cur = <<>> THEN <<>> ELSE <<cur>>)
  ELSE IF Head(path) = "/"
       THEN (IF cur = <<>> THEN <<>> ELSE <<cur>>) \o Segments(Tail(path), <<>>)
       ELSE Segments(Tail(path), Append(cur, Head(path)))

\* a leading separator is added, nothing is collapsed
normalizePrefixed(path) == <<"/">> \o path

\* VirtualFS.normalize: repeated separators collapsed, a single leading
\* separator, no trailing separator except for the root
normalize(path) ==
  LET segs == Segments(path, <<>>)
  IN IF segs = <<>> THEN <<"/">>
     ELSE Flatten([i \in 1..Len(segs) |-> <<"/">> \o segs[i]])

\* VirtualFS.read: the content stored under the path, as a set of 0 or 1
fsRead(fs, path) == {e.content : e \in {f \in fs : f.path = normalize(path)}}

\* VirtualFS.exists
fsExists(fs, path) == fsRead(fs, path) # {}

\* VirtualFS.write: upsert
fsWrite(fs, path, content) ==
  {f \in fs : f.path # normalize(path)} \cup
  {[path |-> normalize(path), content |-> content]}

\* VirtualFS.delete: the entries left and whether one was removed
fsDelete(fs, path) ==
  [files |-> {f \in fs : f.path # normalize(path)},
   existed |-> fsExists(fs, path)]

\* VirtualFS.list: the stored paths that start with the normalized prefix
fsList(fs, prefix) ==
  {f.path : f \in {g \in fs : IsPrefix(normalize(prefix), g.path)}}

\* the first position at which old occurs in content, 0 if there is none
IndexOf(content, old) ==
  LET at == {i \in 1..Len(content) :
               /\ i + Len(old) - 1 <= Len(content)
               /\ SubSeq(content, i, i + Len(old) - 1) = old}
  IN IF at = {} THEN 0 ELSE CHOOSE i \in at : \A j \in at : i <= j

\* content with its first occurrence of old replaced by new
ReplaceFirst(content, old, new) ==
  LET i == IndexOf(content, old)
  IN IF i = 0 THEN content
     ELSE SubSeq(content, 1, i - 1) \o new \o
          SubSeq(content, i + Len(old), Len(content))

\* the edit tool without its check that oldText occurs
editUnchecked(fs, path, oldText, newText) ==
  IF \lnot fsExists(fs, path)
  THEN [files |-> fs, result |-> ToolResult(<<"File not found">>, TRUE)]
  ELSE LET content == CHOOSE c \in fsRead(fs, path) : TRUE
       IN [files |-> fsWrite(fs, path,
                             ReplaceFirst(content, oldText, newText)),
           result |-> ToolResult(<<"Edited">>, FALSE)]

\* the edit tool: the file must exist and contain oldText verbatim, else
\* an error result and nothing written
edit(fs, path, oldText, newText) ==
  IF \lnot fsExists(fs, path)
  THEN [files |-> fs, result |-> ToolResult(<<"File not found">>, TRUE)]
  ELSE LET content == CHOOSE c \in fsRead(fs, path) : TRUE
       IN IF IndexOf(content, oldText) = 0
          THEN [files |-> fs,
                result |-> ToolResult(<<"oldText not found">>, TRUE)]
          ELSE [files |-> fsWrite(fs, path,
                                  ReplaceFirst(content, oldText, newText)),
                result |-> ToolResult(<<"Edited">>, FALSE)]

\* the read tool: the content, or an error result for a missing file
read(fs, path) ==
  IF \lnot fsExists(fs, path)
  THEN ToolResult(<<"File not found">>, TRUE)
  ELSE ToolResult(CHOOSE c \in fsRead(fs, path) : TRUE, FALSE)

\* a call of operation op with a path and an argument, and what it returned
FsCall(op, path, arg, value) ==
  [op |-> op, path |-> path, arg |-> arg, value |-> value]

NoFsCall == FsCall("none", <<>>, <<>>, <<>>)

\* ------------------------------------------------------------------ Chat
\* the user-input requests tools make in the session
RequestIds == 1..MaxRequests

\* the values of the Chat state a render, and the callbacks it makes, see
View(text, isStreaming, pending) ==
  [input |-> text, streaming |-> isStreaming, pendingInput |-> pending]

\* ------------------------------------------------------- user-input form
\* no response has been submitted for the form
NotSubmitted == <<"<pending>">>

\* f.defaultValue ?? other
OrElse(defaultValue, other) ==
  IF defaultValue = Undefined THEN other ELSE defaultValue

\* UserInputForm: the initializer of the values state
initial(fs) ==
  [i \in DOMAIN fs |->
     IF fs[i].type = "confirm" THEN OrElse(fs[i].defaultValue, "no")
     ELSE OrElse(fs[i].defaultValue, "")]

\* +page.svelte: "Initialize form values" in the user-input handler
vals(fs) ==
  [i \in DOMAIN fs |-> OrElse(fs[i].defaultValue, "")]

\* UserInputForm: canSubmit
canSubmit(fs, values) ==
  \A i \in DOMAIN fs : fs[i].required => values[i] # ""

\* +page.svelte: the browser's validation of the inputs that carry the
\* required attribute (the checkbox of a confirm field carries none)
valid(fs, values) ==
  \A i \in DOMAIN fs :
    (fs[i].type = "text" /\ fs[i].required) => values[i] # ""

\* ---------------------------------------------------- extension registry
\* ExtensionRegistry.emit: the listeners are called in order; a call that
\* throws ends the loop.  The set of possible outcomes of one emit().
emit(listeners) ==
  { [delivered |-> SubSeq(listeners, 1, k), threw |-> TRUE] :
      k \in {i \in 1..Len(listeners) : listeners[i] \in ThrowingListeners} }
  \cup { [delivered |-> listeners, threw |-> FALSE] }

\* PiBrowserAPI.requestUserInput: the state of the promise it returns
RequestHangs(handler) == "pending"

requestUserInput(handler) ==
  IF handler = Null THEN "rejected" ELSE "pending"

\* ------------------------------------------------------------------ Init
\* new Agent(config) with config.skills = skills
Constructed(skills) ==
  /\ configSkills = skills
  /\ skillReg = registerAll(<<>>, skills)
  /\ toolsSeen = <<>>
  /\ readResult = NoResult
  /\ messages = << Message("system", SystemPrompt) >>
  /\ abortController = Null
  /\ aborted = {}
  /\ ready = "pending"
  /\ loadIdx = 0
  /\ invoked = <<>>
  /\ extRunning = Null
  /\ failed = {}
  /\ readySeen = <<>>
  /\ extTools = <<>>
  /\ eventListeners = <<>>
  /\ userInputHandler = Null
  /\ lastHandler = Null
  /\ pc = [t \in Turns |-> "idle"]
  /\ ra = [t \in Turns |-> "none"]
  /\ queue = [t \in Turns |-> <<>>]
  /\ rounds = [t \in Turns |-> 0]
  /\ ndeltas = [t \in Turns |-> 0]
  /\ calls = [t \in Turns |-> <<>>]
  /\ toolList = [t \in Turns |-> <<>>]
  /\ fullResponse = [t \in Turns |-> <<>>]
  /\ observed = [t \in Turns |-> <<>>]
  /\ emittedEv = [t \in Turns |-> NoEvent]
  /\ yieldedEv = [t \in Turns |-> NoEvent]
  /\ lastEmit = NoEmit
  /\ inputReq = [t \in Turns |-> "none"]
  /\ servedBy = [t \in Turns |-> Null]
  /\ abortedMid = {}
  /\ snap = <<>>
  /\ files = {}
  /\ fsCall = NoFsCall
  /\ runPc = "idle"
  /\ runRound = 0
  /\ runDeltas = 0
  /\ runCalls = <<>>
  /\ runNext = 0
  /\ execState = <<>>
  /\ execResult = <<>>
  /\ settled = <<>>
  /\ runEvents = <<>>
  /\ apiMessages = <<>>
  /\ signal = NotFired
  /\ integration = "none"
  /\ fields = <<>>
  /\ formValues = <<>>
  /\ response = NotSubmitted
  /\ subs = <<>>
  /\ unsubscribed = {}
  /\ emitIdx = 0
  /\ emitArr = <<>>
  /\ emitLive = FALSE
  /\ chatInput = ""
  /\ streaming = FALSE
  /\ pendingInput = Null
  /\ rendered = View("", FALSE, Null)
  /\ inFlight = 0
  /\ promises = [r \in RequestIds |-> "none"]

\* no call of a library function is being made
NoCalls ==
  /\ expandInput = <<>>
  /\ expandResult = NotCalled

Init == Constructed(ConfigSkills) /\ NoCalls

\* ------------------------------------------------------------ Agent code
\* prompt(): the text is always sent as it was typed
FinalTextVerbatim(text) == text

\* prompt(): const expanded = this.promptTemplates.expand(text);
\*           const finalText = expanded ?? text
FinalText(text) ==
  LET expanded == expand(text)
  IN IF expanded # NoExpansion THEN expanded ELSE text

\* prompt(): this.messages.push({ role: "user", content: finalText })
PushUserFront(msgs, finalText) == <<Message("user", finalText)>> \o msgs

PushUser(msgs, finalText) == Append(msgs, Message("user", finalText))

\* prompt(): if (fullResponse) this.messages.push({ role: "assistant", ... })
PushAssistantReplace(msgs, full) ==
  IF full # <<>> THEN [msgs EXCEPT ![Len(msgs)] = Message("assistant", full)]
  ELSE msgs

\* the push made whatever fullResponse holds
PushAssistantAlways(msgs, full) == Append(msgs, Message("assistant", full))

PushAssistant(msgs, full) ==
  IF full # <<>> THEN Append(msgs, Message("assistant", full)) ELSE msgs

\* prompt(): if (event.type === "text_delta") fullResponse += event.delta
AccumulateLast(full, e) == IF e.type = "text_delta" THEN e.delta ELSE full

Accumulate(full, e) ==
  IF e.type = "text_delta" THEN full \o e.delta ELSE full

\* prompt(): this.extensions.emit(event); the event the turn last emitted
NoBroadcast(prev, e) == prev

Broadcast(prev, e) == e

\* prompt(): finally { this.abortController = null }
ClearOnSuccess(outcome, ctl) == IF outcome = "done" THEN Null ELSE ctl

FinallyClear(outcome, ctl) == Null

Active == {"awaitReady", "running", "yielded"}

Terminal == {"done", "threw", "aborted"}

Streaming(t) == pc[t] \in {"running", "yielded"} /\ ra[t] # "end"

\* the ids of the n tool calls of round r of a turn, in declared order
CallsOf(r, n) == [i \in 1..n |-> (r - 1) * (MaxCalls + 1) + i]

\* ------------------------------------------------------- loading actions
\* ExtensionRegistry.load: `await ext(api)` inside the for-of loop: the next
\* extension is called only when the one before has settled
MayStartAlways(running) == TRUE

MayStart(running) == running = Null

\* ExtensionRegistry.load: await ext(api) for the next extension, which
\* sets itself up without suspending
LoadExtension ==
  /\ ready = "pending"
  /\ MayStart(extRunning)
  /\ loadIdx < Len(ConfigExtensions)
  /\ LET ext == ConfigExtensions[loadIdx + 1]
     IN /\ extTools' = Append(extTools, ext.tool)
        /\ eventListeners' = Append(eventListeners, ext.listener)
  /\ invoked' = Append(invoked, loadIdx + 1)
  /\ loadIdx' = loadIdx + 1
  /\ ready' = IF loadIdx + 1 = Len(ConfigExtensions) THEN "resolved"
              ELSE "pending"
  /\ UNCHANGED << agentVars, aborted, userInputHandler, lastHandler,
                  extRunning, failed, readySeen, turnVars, inputVars,
                  abortedMid, snap, skillVars, libVars >>

\* ExtensionRegistry.load: the next extension throws when it is called
LoadFailsSwallowed ==
  /\ ready = "pending"
  /\ MayStart(extRunning)
  /\ loadIdx < Len(ConfigExtensions)
  /\ invoked' = Append(invoked, loadIdx + 1)
  /\ failed' = failed \cup {loadIdx + 1}
  /\ loadIdx' = loadIdx + 1
  /\ ready' = IF loadIdx + 1 = Len(ConfigExtensions) THEN "resolved"
              ELSE "pending"
  /\ UNCHANGED << agentVars, aborted, regVars, extRunning, readySeen,
                  turnVars, inputVars, abortedMid, snap, skillVars, libVars >>

LoadFails ==
  /\ ready = "pending"
  /\ MayStart(extRunning)
  /\ loadIdx < Len(ConfigExtensions)
  /\ invoked' = Append(invoked, loadIdx + 1)
  /\ failed' = failed \cup {loadIdx + 1}
  /\ loadIdx' = loadIdx + 1
  /\ ready' = "rejected"
  /\ UNCHANGED << agentVars, aborted, regVars, extRunning, readySeen,
                  turnVars, inputVars, abortedMid, snap, skillVars, libVars >>

\* ExtensionRegistry.load: the next extension is called; it is asynchronous:
\* it registers its tool, then suspends before subscribing its listener
LoadStart ==
  /\ ready = "pending"
  /\ MayStart(extRunning)
  /\ loadIdx < Len(ConfigExtensions)
  /\ extTools' = Append(extTools, ConfigExtensions[loadIdx + 1].tool)
  /\ invoked' = Append(invoked, loadIdx + 1)
  /\ extRunning' = loadIdx + 1
  /\ UNCHANGED << agentVars, aborted, ready, loadIdx, failed, readySeen,
                  eventListeners, userInputHandler, lastHandler, turnVars,
                  inputVars, abortedMid, snap, skillVars, libVars >>

\* the asynchronous extension resumes, subscribes its listener and its
\* promise resolves: load() goes on with the loop
LoadFinish ==
  /\ ready = "pending"
  /\ extRunning # Null
  /\ eventListeners' = Append(eventListeners,
                              ConfigExtensions[extRunning].listener)
  /\ extRunning' = Null
  /\ loadIdx' = loadIdx + 1
  /\ ready' = IF loadIdx + 1 = Len(ConfigExtensions) THEN "resolved"
              ELSE "pending"
  /\ UNCHANGED << agentVars, aborted, extTools, userInputHandler,
                  lastHandler, invoked, failed, readySeen, turnVars,
                  inputVars, abortedMid, snap, skillVars, libVars >>

\* the asynchronous extension's promise rejects: load() rejects
LoadRejects ==
  /\ ready = "pending"
  /\ extRunning # Null
  /\ failed' = failed \cup {extRunning}
  /\ extRunning' = Null
  /\ loadIdx' = loadIdx + 1
  /\ ready' = "rejected"
  /\ UNCHANGED << agentVars, aborted, regVars, invoked, readySeen, turnVars,
                  inputVars, abortedMid, snap, skillVars, libVars >>

\* Agent.ready(): await this._ready; the call settles as _ready has
\* settled.  It assigns no field of the Agent: only the caller's record of
\* the outcome changes.
ReadyReloads ==
  /\ ready # "pending"
  /\ Len(readySeen) < MaxReadyCalls
  /\ readySeen' = Append(readySeen, ready)
  /\ invoked' = Append(invoked, 1)
  /\ extTools' = Append(extTools, ConfigExtensions[1].tool)
  /\ UNCHANGED << agentVars, aborted, ready, loadIdx, extRunning, failed,
                  eventListeners, userInputHandler, lastHandler, turnVars,
                  inputVars, abortedMid, snap, skillVars, libVars >>

Ready ==
  /\ ready # "pending"
  /\ Len(readySeen) < MaxReadyCalls
  /\ readySeen' = Append(readySeen, ready)
  /\ UNCHANGED << agentVars, aborted, ready, loadIdx, invoked, extRunning,
                  failed, regVars, turnVars, inputVars, abortedMid, snap, skillVars, libVars >>

\* Agent.setUserInputHandler -> ExtensionRegistry.setUserInputHandler
SetHandlerOnce(h) ==
  /\ userInputHandler' = IF userInputHandler = Null THEN h
                         ELSE userInputHandler
  /\ lastHandler' = h
  /\ UNCHANGED << agentVars, aborted, loadVars, extTools, eventListeners,
                  turnVars, inputVars, abortedMid, snap, skillVars, libVars >>

SetUserInputHandler(h) ==
  /\ userInputHandler' = h
  /\ lastHandler' = h
  /\ UNCHANGED << agentVars, aborted, loadVars, extTools, eventListeners,
                  turnVars, inputVars, abortedMid, snap, skillVars, libVars >>

\* Agent.abort(): this.abortController?.abort()
Abort ==
  /\ aborted' = IF abortController # Null THEN aborted \cup {abortController}
                ELSE aborted
  /\ abortedMid' = abortedMid \cup {t \in Turns : Streaming(t)}
  /\ UNCHANGED << agentVars, loadVars, regVars, turnVars, inputVars, snap, skillVars, libVars >>

\* ---------------------------------------------------------- turn actions
\* prompt(text) is called and its generator is started: await this._ready.
\* The call may be made while one other turn is active (a reentrant call).
Prompt(t) ==
  /\ pc[t] = "idle"
  /\ \A u \in Turns : u < t => pc[u] # "idle"
  /\ \A u, v \in Turns : pc[u] \in Active /\ pc[v] \in Active => u = v
  /\ pc' = [pc EXCEPT ![t] = "awaitReady"]
  /\ UNCHANGED << agentVars, aborted, loadVars, regVars, ra, queue, rounds,
                  ndeltas, calls, toolList, fullResponse, observed, emittedEv,
                  yieldedEv, lastEmit, inputVars, abortedMid, snap, skillVars, libVars >>

\* prompt() failing on _ready only after it has pushed the user message
\* and made its AbortController
PromptFailLate(t) ==
  /\ pc[t] = "awaitReady"
  /\ ready = "rejected"
  /\ pc' = [pc EXCEPT ![t] = "threw"]
  /\ \E text \in Texts : messages' = PushUser(messages, FinalText(text))
  /\ abortController' = t
  /\ UNCHANGED << aborted, loadVars, regVars, ra, queue, rounds,
                  ndeltas, calls, toolList, fullResponse, observed, emittedEv,
                  yieldedEv, lastEmit, inputVars, abortedMid, snap, skillVars,
                  libVars >>

\* prompt(): _ready rejected, the generator throws before touching state
PromptFail(t) ==
  /\ pc[t] = "awaitReady"
  /\ ready = "rejected"
  /\ pc' = [pc EXCEPT ![t] = "threw"]
  /\ UNCHANGED << agentVars, aborted, loadVars, regVars, ra, queue, rounds,
                  ndeltas, calls, toolList, fullResponse, observed, emittedEv,
                  yieldedEv, lastEmit, inputVars, abortedMid, snap, skillVars, libVars >>

\* prompt() without its first line: the turn starts while extensions load
PromptStartEarly(t, text) ==
  /\ pc[t] = "awaitReady"
  /\ ready \in {"pending", "resolved"}
  /\ \A u \in Turns : u < t => pc[u] # "awaitReady"
  /\ messages' = PushUser(messages, FinalText(text))
  /\ abortController' = t
  /\ toolList' = [toolList EXCEPT ![t] = Tools]
  /\ pc' = [pc EXCEPT ![t] = "running"]
  /\ ra' = [ra EXCEPT ![t] = "fetch"]
  /\ rounds' = [rounds EXCEPT ![t] = 1]
  /\ UNCHANGED << aborted, loadVars, regVars, queue, ndeltas, calls,
                  fullResponse, observed, emittedEv, yieldedEv, lastEmit,
                  inputVars, abortedMid, snap, skillVars, libVars >>

\* prompt(): _ready resolved; expand, push the user message, make a new
\* AbortController, call runAgent(this.messages, this.tools, ..., signal)
PromptStart(t, text) ==
  /\ pc[t] = "awaitReady"
  /\ ready = "resolved"
  /\ \A u \in Turns : u < t => pc[u] # "awaitReady"
  /\ messages' = PushUser(messages, FinalText(text))
  /\ abortController' = t
  /\ toolList' = [toolList EXCEPT ![t] = Tools]
  /\ pc' = [pc EXCEPT ![t] = "running"]
  /\ ra' = [ra EXCEPT ![t] = "fetch"]
  /\ rounds' = [rounds EXCEPT ![t] = 1]
  /\ UNCHANGED << aborted, loadVars, regVars, queue, ndeltas, calls,
                  fullResponse, observed, emittedEv, yieldedEv, lastEmit,
                  inputVars, abortedMid, snap, skillVars, libVars >>

\* The generator of turn t is over with the given outcome: its finally
\* block has run, its locals and its AbortController are gone.
Finish(t, outcome) ==
  /\ pc' = [pc EXCEPT ![t] = outcome]
  /\ abortController' = FinallyClear(outcome, abortController)
  /\ ra' = [ra EXCEPT ![t] = "none"]
  /\ queue' = [queue EXCEPT ![t] = <<>>]
  /\ rounds' = [rounds EXCEPT ![t] = 0]
  /\ ndeltas' = [ndeltas EXCEPT ![t] = 0]
  /\ calls' = [calls EXCEPT ![t] = <<>>]
  /\ toolList' = [toolList EXCEPT ![t] = <<>>]
  /\ fullResponse' = [fullResponse EXCEPT ![t] = <<>>]
  /\ observed' = [observed EXCEPT ![t] = <<>>]
  /\ emittedEv' = [emittedEv EXCEPT ![t] = NoEvent]
  /\ yieldedEv' = [yieldedEv EXCEPT ![t] = NoEvent]
  /\ aborted' = aborted \ {t}
  /\ abortedMid' = abortedMid \ {t}
  /\ inputReq' = [inputReq EXCEPT ![t] = "none"]
  /\ servedBy' = [servedBy EXCEPT ![t] = Null]

\* The body of prompt()'s for-await loop for one event e of runAgent, which
\* moves to raNext with qNext left to yield, nd deltas sent and cs the calls
\* of its round: accumulate, emit, yield.  A listener that throws ends the
\* generator through the finally block.
HandleEvent(t, e, raNext, qNext, nd, cs) ==
  \E o \in emit(eventListeners) :
    /\ lastEmit' = [to |-> eventListeners, delivered |-> o.delivered]
    /\ IF o.threw
       THEN /\ Finish(t, "threw")
            /\ UNCHANGED messages
       ELSE /\ fullResponse' = [fullResponse EXCEPT ![t] = Accumulate(@, e)]
            /\ emittedEv' = [emittedEv EXCEPT ![t] = Broadcast(@, e)]
            /\ yieldedEv' = [yieldedEv EXCEPT ![t] = e]
            /\ observed' = [observed EXCEPT ![t] = @ \o e.delta]
            /\ pc' = [pc EXCEPT ![t] = "yielded"]
            /\ ra' = [ra EXCEPT ![t] = raNext]
            /\ queue' = [queue EXCEPT ![t] = qNext]
            /\ ndeltas' = [ndeltas EXCEPT ![t] = nd]
            /\ calls' = [calls EXCEPT ![t] = cs]
            /\ UNCHANGED << agentVars, aborted, rounds, toolList, inputVars,
                            abortedMid, skillVars, libVars >>
    /\ UNCHANGED << loadVars, regVars, snap, skillVars, libVars >>

\* runAgent: the next text fragment arrives on the stream
TextDelta(t) ==
  /\ pc[t] = "running" /\ ra[t] = "fetch"
  /\ t \notin aborted
  /\ ndeltas[t] < MaxDeltas
  /\ HandleEvent(t, TextDeltaEv(<<Fragment[ndeltas[t] + 1]>>), "fetch", <<>>,
                 ndeltas[t] + 1, calls[t])

\* runAgent: the stream ends and the model requested no tool call
StreamEnd(t) ==
  /\ pc[t] = "running" /\ ra[t] = "fetch"
  /\ t \notin aborted
  /\ HandleEvent(t, TurnEndEv, "end", <<>>, ndeltas[t], calls[t])

\* runAgent: the stream ends and the model declared n tool calls; the
\* tool_call_start events are yielded in declared order
StreamEndTools(t, n) ==
  /\ pc[t] = "running" /\ ra[t] = "fetch"
  /\ t \notin aborted
  /\ rounds[t] <= MaxRounds
  /\ LET cs == CallsOf(rounds[t], n)
     IN HandleEvent(t, ToolStartEv(cs[1]), "starting",
                    [i \in 1..(n - 1) |-> ToolStartEv(cs[i + 1])],
                    ndeltas[t], cs)

\* runAgent: connection failure or non-2xx response: an error event, then
\* the generator returns
TransportError(t) ==
  /\ pc[t] = "running" /\ ra[t] = "fetch"
  /\ t \notin aborted
  /\ HandleEvent(t, ErrorEv, "end", <<>>, ndeltas[t], calls[t])

\* runAgent: the request fails (connection failure or non-2xx response)
\* after the stream has opened; runAgent catches the failure
TransportFails(t) ==
  /\ pc[t] = "running" /\ ra[t] = "fetch"
  /\ t \notin aborted
  /\ ra' = [ra EXCEPT ![t] = "failed"]
  /\ UNCHANGED << agentVars, aborted, loadVars, regVars, pc, queue, rounds,
                  ndeltas, calls, toolList, fullResponse, observed, emittedEv,
                  yieldedEv, lastEmit, inputVars, abortedMid, snap, skillVars,
                  libVars >>

\* runAgent: the failure it caught is yielded as an error event, after
\* which the generator returns
SurfaceError(t) ==
  /\ pc[t] = "running" /\ ra[t] = "failed"
  /\ HandleEvent(t, ErrorEv, "end", <<>>, ndeltas[t], calls[t])

\* runAgent: the signal has fired and this is reported as an error event
AbortAsError(t) ==
  /\ pc[t] = "running" /\ ra[t] = "fetch"
  /\ t \in aborted
  /\ HandleEvent(t, ErrorEv, "end", <<>>, ndeltas[t], calls[t])

\* runAgent: the signal has fired, the network call raises AbortError,
\* which leaves prompt() through its finally block
AbortRaise(t) ==
  /\ pc[t] = "running" /\ ra[t] = "fetch"
  /\ t \in aborted
  /\ Finish(t, "aborted")
  /\ UNCHANGED << messages, loadVars, regVars, lastEmit, snap, skillVars, libVars >>

\* runAgent: every tool of the round has returned its result; the
\* tool_call_end events are yielded in call order
ToolsFinish(t) ==
  /\ pc[t] = "running" /\ ra[t] = "tools"
  /\ inputReq[t] # "pending"
  /\ LET cs == calls[t]
     IN HandleEvent(t, ToolEndEv(cs[1]), "ending",
                    [i \in 1..(Len(cs) - 1) |-> ToolEndEv(cs[i + 1])],
                    ndeltas[t], cs)

\* the caller asks for the next event after the last one: runAgent has
\* returned, the response is recorded and the generator completes
Complete(t) ==
  /\ pc[t] = "yielded" /\ ra[t] = "end"
  /\ messages' = PushAssistant(messages, fullResponse[t])
  /\ Finish(t, "done")
  /\ UNCHANGED << loadVars, regVars, lastEmit, snap, skillVars, libVars >>

\* the caller asks for the next event while the stream is open
NextFetch(t) ==
  /\ pc[t] = "yielded" /\ ra[t] = "fetch"
  /\ pc' = [pc EXCEPT ![t] = "running"]
  /\ UNCHANGED << agentVars, aborted, loadVars, regVars, ra, queue, rounds,
                  ndeltas, calls, toolList, fullResponse, observed, emittedEv,
                  yieldedEv, lastEmit, inputVars, abortedMid, snap, skillVars, libVars >>

\* the caller asks for the next event and runAgent has one ready
NextQueued(t) ==
  /\ pc[t] = "yielded" /\ ra[t] \in {"starting", "ending"}
  /\ queue[t] # <<>>
  /\ HandleEvent(t, Head(queue[t]), ra[t], Tail(queue[t]), ndeltas[t],
                 calls[t])

\* the caller asks for the next event after the last tool_call_start:
\* runAgent executes the tools of the round
NextTools(t) ==
  /\ pc[t] = "yielded" /\ ra[t] = "starting"
  /\ queue[t] = <<>>
  /\ pc' = [pc EXCEPT ![t] = "running"]
  /\ ra' = [ra EXCEPT ![t] = "tools"]
  /\ UNCHANGED << agentVars, aborted, loadVars, regVars, queue, rounds,
                  ndeltas, calls, toolList, fullResponse, observed, emittedEv,
                  yieldedEv, lastEmit, inputVars, abortedMid, snap, skillVars, libVars >>

\* the caller asks for the next event after the last tool_call_end:
\* runAgent starts the next round
NextRound(t) ==
  /\ pc[t] = "yielded" /\ ra[t] = "ending"
  /\ queue[t] = <<>>
  /\ pc' = [pc EXCEPT ![t] = "running"]
  /\ ra' = [ra EXCEPT ![t] = "fetch"]
  /\ rounds' = [rounds EXCEPT ![t] = @ + 1]
  /\ calls' = [calls EXCEPT ![t] = <<>>]
  /\ inputReq' = [inputReq EXCEPT ![t] = "none"]
  /\ servedBy' = [servedBy EXCEPT ![t] = Null]
  /\ UNCHANGED << agentVars, aborted, loadVars, regVars, queue, ndeltas,
                  toolList, fullResponse, observed, emittedEv, yieldedEv,
                  lastEmit, abortedMid, snap, skillVars, libVars >>

\* an extension tool that is executing calls api.requestUserInput(req)
RequestUserInput(t) ==
  /\ pc[t] = "running" /\ ra[t] = "tools"
  /\ inputReq[t] = "none"
  /\ inputReq' = [inputReq EXCEPT ![t] = requestUserInput(userInputHandler)]
  /\ servedBy' = [servedBy EXCEPT ![t] = userInputHandler]
  /\ UNCHANGED << agentVars, aborted, loadVars, regVars, turnVars,
                  abortedMid, snap, skillVars, libVars >>

\* the installed handler resolves the promise it returned
ResolveInput(t) ==
  /\ inputReq[t] = "pending"
  /\ servedBy[t] # Null
  /\ inputReq' = [inputReq EXCEPT ![t] = "resolved"]
  /\ UNCHANGED << agentVars, aborted, loadVars, regVars, turnVars, servedBy,
                  abortedMid, snap, skillVars, libVars >>

\* -------------------------------------------------- getMessages() caller
\* Agent.getMessages(): [...this.messages], an array of the same objects
GetMessages ==
  /\ snap' = [i \in 1..Len(messages) |-> i]
  /\ UNCHANGED << agentVars, aborted, loadVars, regVars, turnVars, inputVars,
                  abortedMid, skillVars, libVars >>

\* the caller removes the last element of the array it was given
SnapPop ==
  /\ snap # <<>>
  /\ snap' = SubSeq(snap, 1, Len(snap) - 1)
  /\ UNCHANGED << agentVars, aborted, loadVars, regVars, turnVars, inputVars,
                  abortedMid, skillVars, libVars >>

\* the caller pushes an object of its own (position 0) onto that array
SnapPush ==
  /\ Len(snap) <= Len(messages)
  /\ snap' = Append(snap, 0)
  /\ UNCHANGED << agentVars, aborted, loadVars, regVars, turnVars, inputVars,
                  abortedMid, skillVars, libVars >>

\* the caller assigns the content of a message object found in that array
SnapSetContent(i) ==
  /\ i \in 1..Len(snap)
  /\ snap[i] # 0
  /\ messages' = [messages EXCEPT ![snap[i]].content = <<"edited">>]
  /\ UNCHANGED << abortController, aborted, loadVars, regVars, turnVars,
                  inputVars, abortedMid, snap, skillVars, libVars >>

\* ------------------------------------------- skills and tools, by callers
\* agent.skills.register(skill)
RegisterSkill(skill) ==
  /\ skillReg' = register(skillReg, skill)
  /\ UNCHANGED << agentVars, aborted, loadVars, regVars, turnVars, inputVars,
                  abortedMid, snap, libVars,
                  configSkills, toolsSeen, readResult >>

\* agent.skills.registerAll(skills)
RegisterAllSkills(skills) ==
  /\ skillReg' = registerAll(skillReg, skills)
  /\ UNCHANGED << agentVars, aborted, loadVars, regVars, turnVars, inputVars,
                  abortedMid, snap, libVars,
                  configSkills, toolsSeen, readResult >>

\* the read_skill tool is executed with { name }
ReadSkill(name) ==
  /\ readResult' = readSkill(skillReg, name)
  /\ UNCHANGED << agentVars, aborted, loadVars, regVars, turnVars, inputVars,
                  abortedMid, snap, libVars,
                  configSkills, skillReg, toolsSeen >>

\* PiBrowserAPI.registerTool(tool), called by an extension after its setup
RegisterTool(name) ==
  /\ ready = "resolved"
  /\ Len(extTools) < Len(ConfigExtensions) + MaxLateTools
  /\ extTools' = Append(extTools, name)
  /\ UNCHANGED << agentVars, aborted, loadVars, eventListeners,
                  userInputHandler, lastHandler, turnVars, inputVars,
                  abortedMid, snap, skillVars, libVars >>

\* a caller reads agent.tools
AccessTools ==
  /\ toolsSeen' = Tools
  /\ UNCHANGED << agentVars, aborted, loadVars, regVars, turnVars, inputVars,
                  abortedMid, snap, libVars,
                  configSkills, skillReg, readResult >>

\* ------------------------------------------------------ template actions
\* the inputs of expand(): nothing, or a first word followed by up to
\* MaxArgs words
ExpandInputs ==
  { <<>> } \cup
  { <<first>> \o rest :
      first \in SlashCommands \cup {"hello"},
      rest \in UNION { [1..n -> Words] : n \in 0..MaxArgs } }

\* promptTemplates.expand(input) is called and returns
Expand ==
  /\ expandResult = NotCalled
  /\ expandResult' = expand(expandInput)
  /\ UNCHANGED << agentVars, aborted, loadVars, regVars, turnVars, inputVars,
                  abortedMid, snap, skillVars, expandInput, fsVars,
                  runVars, uiVars >>

\* ----------------------------------------------------- VirtualFS actions
\* a VirtualFS operation or a built-in tool leaves the rest as it is
FsFrame ==
  UNCHANGED << agentVars, aborted, loadVars, regVars, turnVars, inputVars,
               abortedMid, snap, skillVars, tmplVars, runVars, uiVars >>

\* VirtualFS.normalize(path), as every operation calls it first
Normalize(path) ==
  /\ fsCall' = FsCall("normalize", path, <<>>, normalize(path))
  /\ UNCHANGED files
  /\ FsFrame

\* agent.fs.write(path, content)
FsWrite(path, content) ==
  /\ files' = fsWrite(files, path, content)
  /\ fsCall' = FsCall("write", path, content, <<>>)
  /\ FsFrame

\* agent.fs.read(path)
FsRead(path) ==
  /\ fsCall' = FsCall("read", path, <<>>, fsRead(files, path))
  /\ UNCHANGED files
  /\ FsFrame

\* agent.fs.delete(path)
FsDelete(path) ==
  /\ files' = fsDelete(files, path).files
  /\ fsCall' = FsCall("delete", path, <<>>, fsDelete(files, path).existed)
  /\ FsFrame

\* agent.fs.list(prefix)
FsList(prefix) ==
  /\ fsCall' = FsCall("list", prefix, <<>>, fsList(files, prefix))
  /\ UNCHANGED files
  /\ FsFrame

\* the edit tool is executed with {path, oldText, newText}
EditTool(path, oldText, newText) ==
  /\ files' = edit(files, path, oldText, newText).files
  /\ fsCall' = FsCall("edit", path, oldText,
                      edit(files, path, oldText, newText).result)
  /\ FsFrame

\* the read tool is executed with {path}
ReadTool(path) ==
  /\ fsCall' = FsCall("readTool", path, <<>>, read(files, path))
  /\ UNCHANGED files
  /\ FsFrame

\* --------------------------------------------- runAgent, step by step
\* runAgent(messages, tools, config, signal) driven by a consumer that asks
\* for every event; each call of a round has its own execution.
RunFrame ==
  UNCHANGED << agentVars, aborted, loadVars, regVars, turnVars, inputVars,
               abortedMid, snap, skillVars, tmplVars, fsVars, uiVars >>

\* what execute returns for call id: add_extension, remove_extension and
\* read_skill catch or detect their failure and return it with isError
executeReturns(succeeded, id) ==
  IF succeeded THEN ToolResult(<<"ok", id>>, FALSE)
  ELSE ToolResult(<<"failed", id>>, TRUE)

\* a failure of execute reaches the model without the error flag
settleUnflagged(outcome, id) == ToolResult(<<outcome, id>>, FALSE)

\* the ToolResult of an execution: what execute returned, or the
\* description of the exception it threw, with isError
settle(outcome, id) ==
  CASE outcome = "ok" -> executeReturns(TRUE, id)
    [] outcome = "failed" -> executeReturns(FALSE, id)
    [] outcome = "threw" -> ToolResult(<<outcome, id>>, TRUE)

\* the results are attached in the order the executions settled
attachAsSettled(cs, results, order) ==
  [i \in DOMAIN cs |-> ToolCall(cs[i].id, results[order[i]])]

\* the results are attached to the calls they belong to, in call order
attach(cs, results, order) ==
  [i \in DOMAIN cs |-> ToolCall(cs[i].id, results[i])]

\* the tool_call_end event carries the call as it was declared
toolCallEndBare(call) == RunEvent("tool_call_end", ToolCall(call.id, NoResult))

\* the tool_call_end event carries the call with its result
toolCallEnd(call) == RunEvent("tool_call_end", call)

\* the assistant turn of a round and one tool-result turn per call, in
\* call order
roundMessages(cs) ==
  << ApiMessage("assistant", [i \in DOMAIN cs |-> cs[i].id], NoResult) >> \o
  [i \in DOMAIN cs |-> ApiMessage("tool", <<cs[i].id>>, cs[i].result)]

RunActive == runPc \notin {"idle", "returned", "raised"}

\* runAgent(...) is called and its first event asked for
RunAgent ==
  /\ runPc = "idle"
  /\ runPc' = "request"
  /\ UNCHANGED << runRound, runDeltas, runCalls, runNext, execState,
                  execResult, settled, runEvents, apiMessages, signal >>
  /\ RunFrame

\* abort(): the signal fires
Signal ==
  /\ RunActive
  /\ \lnot signal.aborted
  /\ signal' = [aborted |-> TRUE, requests |-> runRound, at |-> runPc]
  /\ UNCHANGED << runPc, runRound, runDeltas, runCalls, runNext, execState,
                  execResult, settled, runEvents, apiMessages >>
  /\ RunFrame

\* the request of a round is sent whether or not the signal has fired
SendRequestUnchecked ==
  /\ runPc = "request"
  /\ runPc' = "streaming"
  /\ runRound' = runRound + 1
  /\ UNCHANGED << runDeltas, runCalls, runNext, execState, execResult,
                  settled, runEvents, apiMessages, signal >>
  /\ RunFrame

\* steps 1-2: the request of a round is sent with the signal, which has
\* not fired
SendRequest ==
  /\ runPc = "request"
  /\ \lnot signal.aborted
  /\ runPc' = "streaming"
  /\ runRound' = runRound + 1
  /\ UNCHANGED << runDeltas, runCalls, runNext, execState, execResult,
                  settled, runEvents, apiMessages, signal >>
  /\ RunFrame

\* the signal fired before the request or while the response streams: the
\* network call raises the abort, which leaves the generator
RunAbortRaise ==
  /\ runPc \in {"request", "streaming"}
  /\ signal.aborted
  /\ runPc' = "raised"
  /\ UNCHANGED << runRound, runDeltas, runCalls, runNext, execState,
                  execResult, settled, runEvents, apiMessages, signal >>
  /\ RunFrame

\* step 2: a text fragment arrives and is yielded as text_delta
RunTextDelta ==
  /\ runPc = "streaming"
  /\ \lnot signal.aborted
  /\ runDeltas < MaxDeltas
  /\ runDeltas' = runDeltas + 1
  /\ runEvents' = Append(runEvents, RunEvent("text_delta", NoCall))
  /\ UNCHANGED << runPc, runRound, runCalls, runNext, execState, execResult,
                  settled, apiMessages, signal >>
  /\ RunFrame

\* connection failure or non-2xx response: an error event, then return
RunTransportError ==
  /\ runPc = "streaming"
  /\ \lnot signal.aborted
  /\ runEvents' = Append(runEvents, RunEvent("error", NoCall))
  /\ runPc' = "returned"
  /\ UNCHANGED << runRound, runDeltas, runCalls, runNext, execState,
                  execResult, settled, apiMessages, signal >>
  /\ RunFrame

\* turn_end is yielded and the loop goes on
RunStreamEndContinues ==
  /\ runPc = "streaming"
  /\ \lnot signal.aborted
  /\ runEvents' = Append(runEvents, RunEvent("turn_end", NoCall))
  /\ runPc' = "request"
  /\ UNCHANGED << runRound, runDeltas, runCalls, runNext, execState,
                  execResult, settled, apiMessages, signal >>
  /\ RunFrame

\* step 4, no tool call requested: turn_end, then return
RunStreamEnd ==
  /\ runPc = "streaming"
  /\ \lnot signal.aborted
  /\ runEvents' = Append(runEvents, RunEvent("turn_end", NoCall))
  /\ runPc' = "returned"
  /\ UNCHANGED << runRound, runDeltas, runCalls, runNext, execState,
                  execResult, settled, apiMessages, signal >>
  /\ RunFrame

\* step 4, n tool calls requested: they are decoded in declared order
RunStreamEndTools(n) ==
  /\ runPc = "streaming"
  /\ \lnot signal.aborted
  /\ runRound <= MaxRounds
  /\ runCalls' = [i \in 1..n |-> ToolCall(CallsOf(runRound, n)[i], NoResult)]
  /\ execState' = [i \in 1..n |-> "pending"]
  /\ execResult' = [i \in 1..n |-> NoResult]
  /\ settled' = <<>>
  /\ runNext' = 1
  /\ runPc' = "starting"
  /\ UNCHANGED << runRound, runDeltas, runEvents, apiMessages, signal >>
  /\ RunFrame

\* tool_call_start is yielded for the next call, in declared order
YieldToolStart ==
  /\ runPc = "starting"
  /\ runNext <= Len(runCalls)
  /\ runEvents' =
       Append(runEvents, RunEvent("tool_call_start", runCalls[runNext]))
  /\ runNext' = runNext + 1
  /\ UNCHANGED << runPc, runRound, runDeltas, runCalls, execState,
                  execResult, settled, apiMessages, signal >>
  /\ RunFrame

\* execute(arguments) is called for every call of the round
StartExecutions ==
  /\ runPc = "starting"
  /\ runNext > Len(runCalls)
  /\ execState' = [i \in DOMAIN runCalls |-> "running"]
  /\ runPc' = "executing"
  /\ UNCHANGED << runRound, runDeltas, runCalls, runNext, execResult,
                  settled, runEvents, apiMessages, signal >>
  /\ RunFrame

\* the execution of call i ends, by returning or by throwing
ExecutionSettles(i, outcome) ==
  /\ runPc = "executing"
  /\ i \in DOMAIN execState
  /\ execState[i] = "running"
  /\ execState' = [execState EXCEPT ![i] = "settled"]
  /\ execResult' = [execResult EXCEPT ![i] = settle(outcome, runCalls[i].id)]
  /\ settled' = Append(settled, i)
  /\ UNCHANGED << runPc, runRound, runDeltas, runCalls, runNext, runEvents,
                  apiMessages, signal >>
  /\ RunFrame

\* all executions have settled: each result is attached to its ToolCall
CollectResults ==
  /\ runPc = "executing"
  /\ \A i \in DOMAIN execState : execState[i] = "settled"
  /\ runCalls' = attach(runCalls, execResult, settled)
  /\ runNext' = 1
  /\ runPc' = "ending"
  /\ UNCHANGED << runRound, runDeltas, execState, execResult, settled,
                  runEvents, apiMessages, signal >>
  /\ RunFrame

\* tool_call_end is yielded for the next call, in declared order
YieldToolEnd ==
  /\ runPc = "ending"
  /\ runNext <= Len(runCalls)
  /\ runEvents' = Append(runEvents, toolCallEnd(runCalls[runNext]))
  /\ runNext' = runNext + 1
  /\ UNCHANGED << runPc, runRound, runDeltas, runCalls, execState,
                  execResult, settled, apiMessages, signal >>
  /\ RunFrame

\* the assistant turn and the tool-result turns are appended and the loop
\* goes back to step 1
FeedBack ==
  /\ runPc = "ending"
  /\ runNext > Len(runCalls)
  /\ apiMessages' = apiMessages \o roundMessages(runCalls)
  /\ runPc' = "request"
  /\ runCalls' = <<>>
  /\ runNext' = 0
  /\ execState' = <<>>
  /\ execResult' = <<>>
  /\ settled' = <<>>
  /\ UNCHANGED << runRound, runDeltas, runEvents, signal >>
  /\ RunFrame

\* --------------------------------------------------------- specification
\* one step of the prompt() generator of turn t or of its runAgent
\* ------------------------------------------- subscriptions and emit steps
\* what on(), its unsubscribe functions and emit() leave alone
SubFrame ==
  UNCHANGED << agentVars, aborted, loadVars, extTools, userInputHandler,
               lastHandler, pc, ra, queue, rounds, ndeltas, calls, toolList,
               fullResponse, observed, emittedEv, yieldedEv, inputVars,
               abortedMid, snap, skillVars, tmplVars, fsVars, runVars,
               formVars, chatVars >>

\* Array.prototype.filter((h) => h !== handler)
filter(listeners, handler) ==
  SelectSeq(listeners, LAMBDA h : h # handler)

\* a call can be made now: no emit() is running, or the call is made by
\* the listener the running emit() has just called (emit is synchronous)
Callable == emitIdx # 1

\* api.on("agent_event", handler): push onto the array in eventListeners
On(handler) ==
  /\ Callable
  /\ Len(subs) < MaxSubs
  /\ eventListeners' = Append(eventListeners, handler)
  /\ subs' = Append(subs, handler)
  /\ UNCHANGED << unsubscribed, emitIdx, emitArr, emitLive, lastEmit >>
  /\ SubFrame

\* the function returned by the k-th on() call is called: eventListeners
\* is assigned a new, filtered array; a running emit() keeps iterating the
\* array it started with
Unsubscribe(k) ==
  /\ Callable
  /\ k \in DOMAIN subs
  /\ eventListeners' = filter(eventListeners, subs[k])
  /\ unsubscribed' = unsubscribed \cup {k}
  /\ IF emitIdx > 0 /\ emitLive
     THEN emitArr' = eventListeners /\ emitLive' = FALSE
     ELSE UNCHANGED << emitArr, emitLive >>
  /\ UNCHANGED << subs, emitIdx, lastEmit >>
  /\ SubFrame

\* emit(event) is called: for (const listener of this.eventListeners)
EmitStart ==
  /\ emitIdx = 0
  /\ emitIdx' = 1
  /\ emitLive' = TRUE
  /\ emitArr' = <<>>
  /\ lastEmit' = [to |-> eventListeners, delivered |-> <<>>]
  /\ UNCHANGED << eventListeners, subs, unsubscribed >>
  /\ SubFrame

\* the array the loop of the running emit() iterates, as it is now
Iterated == IF emitLive THEN eventListeners ELSE emitArr

\* emit(): the loop calls the next listener of the array it iterates; the
\* listener returns, or throws and ends emit()
Deliver(throws) ==
  /\ emitIdx > 0 /\ emitIdx <= Len(Iterated)
  /\ throws => Iterated[emitIdx] \in ThrowingListeners
  /\ lastEmit' = [lastEmit EXCEPT !.delivered = Append(@, Iterated[emitIdx])]
  /\ IF throws
     THEN emitIdx' = 0 /\ emitLive' = FALSE /\ emitArr' = <<>>
     ELSE emitIdx' = emitIdx + 1 /\ UNCHANGED << emitArr, emitLive >>
  /\ UNCHANGED << eventListeners, subs, unsubscribed >>
  /\ SubFrame

\* emit(): the loop has reached the end of the array it iterates
EmitEnd ==
  /\ emitIdx > Len(Iterated)
  /\ emitIdx' = 0 /\ emitLive' = FALSE /\ emitArr' = <<>>
  /\ UNCHANGED << eventListeners, subs, unsubscribed, lastEmit >>
  /\ SubFrame

\* ----------------------------------------------------------- Chat actions
\* what the Chat component leaves alone
ChatFrame ==
  UNCHANGED << agentVars, aborted, loadVars, regVars, turnVars, inputVars,
               abortedMid, snap, skillVars, tmplVars, fsVars, runVars,
               formVars, subVars >>

\* React renders Chat with its current state: the handlers of the page are
\* now the callbacks made by this render
Render ==
  /\ rendered # View(chatInput, streaming, pendingInput)
  /\ rendered' = View(chatInput, streaming, pendingInput)
  /\ UNCHANGED << chatInput, streaming, pendingInput, inFlight, promises >>
  /\ ChatFrame

\* textarea onChange: setInput(e.target.value); the rendered textarea is
\* disabled while streaming
Change(text) ==
  /\ ~rendered.streaming
  /\ chatInput' = text
  /\ UNCHANGED << streaming, pendingInput, rendered, inFlight, promises >>
  /\ ChatFrame

\* Chat.handleSubmit, called by Enter in the textarea or by the Send
\* button of the last render: the callback reads the input and streaming
\* of that render; past its guard it clears the input, sets streaming and
\* starts agent.prompt(text)
ChatHandleSubmit ==
  /\ ~rendered.streaming
  /\ inFlight < MaxInFlight
  /\ IF rendered.input = "" \/ rendered.streaming
     THEN UNCHANGED << chatInput, streaming, inFlight >>
     ELSE /\ chatInput' = ""
          /\ streaming' = TRUE
          /\ inFlight' = inFlight + 1
  /\ UNCHANGED << pendingInput, rendered, promises >>
  /\ ChatFrame

\* Chat.handleSubmit resumes after its for-await loop: the prompt() it
\* started is over (no tool of the turn is waiting for user input);
\* setStreaming(false)
ChatTurnOver ==
  /\ inFlight > 0
  /\ \A r \in RequestIds : promises[r] # "pending"
  /\ inFlight' = inFlight - 1
  /\ streaming' = FALSE
  /\ UNCHANGED << chatInput, pendingInput, rendered, promises >>
  /\ ChatFrame

\* the handler Chat installed is called for request r by a tool of a turn
\* in flight: it returns a new promise and setPendingInput({request,
\* resolve}) replaces what the state held
ChatRequest(r) ==
  /\ inFlight > 0
  /\ promises[r] = "none"
  /\ \A q \in RequestIds : q < r => promises[q] # "none"
  /\ promises' = [promises EXCEPT ![r] = "pending"]
  /\ pendingInput' = r
  /\ UNCHANGED << chatInput, streaming, rendered, inFlight >>
  /\ ChatFrame

\* Chat.handleUserInputSubmit, called by the form the last render shows:
\* the callback resolves the pendingInput of that render and
\* setPendingInput(null)
handleUserInputSubmit ==
  /\ rendered.pendingInput # Null
  /\ promises' = [promises EXCEPT ![rendered.pendingInput] = "resolved"]
  /\ pendingInput' = Null
  /\ UNCHANGED << chatInput, streaming, rendered, inFlight >>
  /\ ChatFrame

\* ------------------------------------------------- user-input form actions
\* what the form leaves alone
FormFrame ==
  UNCHANGED << agentVars, aborted, loadVars, regVars, turnVars, inputVars,
               abortedMid, snap, skillVars, tmplVars, fsVars, runVars,
               subVars, chatVars >>

\* a tool's requestUserInput(request) reaches the handler of the given
\* presentation layer, which shows its form with the initial values
ShowForm(ui, fs) ==
  /\ integration = "none"
  /\ integration' = ui
  /\ fields' = fs
  /\ formValues' = IF ui = "UserInputForm" THEN initial(fs) ELSE vals(fs)
  /\ response' = NotSubmitted
  /\ FormFrame

\* UserInputForm, FieldInput confirm: the Yes or the No button is clicked
ConfirmClick(i, v) ==
  /\ integration = "UserInputForm" /\ response = NotSubmitted
  /\ i \in DOMAIN fields /\ fields[i].type = "confirm"
  /\ formValues' = [formValues EXCEPT ![i] = v]
  /\ UNCHANGED << integration, fields, response >>
  /\ FormFrame

\* +page.svelte, confirm checkbox: onchange after the box was clicked
CheckboxChange(i) ==
  /\ integration = "+page.svelte" /\ response = NotSubmitted
  /\ i \in DOMAIN fields /\ fields[i].type = "confirm"
  /\ LET checked == ~(formValues[i] = "true")
     IN formValues' =
          [formValues EXCEPT ![i] = IF checked THEN "true" ELSE "false"]
  /\ UNCHANGED << integration, fields, response >>
  /\ FormFrame

\* either form: the user types into a text field
TypeText(i, text) ==
  /\ integration # "none" /\ response = NotSubmitted
  /\ i \in DOMAIN fields /\ fields[i].type = "text"
  /\ formValues' = [formValues EXCEPT ![i] = text]
  /\ UNCHANGED << integration, fields, response >>
  /\ FormFrame

\* UserInputForm.handleSubmit: onSubmit(values) if canSubmit
handleSubmit ==
  /\ integration = "UserInputForm" /\ response = NotSubmitted
  /\ canSubmit(fields, formValues)
  /\ response' = formValues
  /\ UNCHANGED << integration, fields, formValues >>
  /\ FormFrame

\* +page.svelte submitAnswer: pendingQuestion.resolve({...formValues})
submitAnswer ==
  /\ integration = "+page.svelte" /\ response = NotSubmitted
  /\ valid(fields, formValues)
  /\ response' = formValues
  /\ UNCHANGED << integration, fields, formValues >>
  /\ FormFrame

TurnStep(t) ==
  \/ Prompt(t)
  \/ PromptFail(t)
  \/ \E text \in Texts : PromptStart(t, text)
  \/ TextDelta(t)
  \/ StreamEnd(t)
  \/ \E n \in {1, MaxCalls} : StreamEndTools(t, n)
  \/ TransportError(t)
  \/ AbortRaise(t)
  \/ ToolsFinish(t)
  \/ Complete(t)
  \/ NextFetch(t)
  \/ NextQueued(t)
  \/ NextTools(t)
  \/ NextRound(t)

\* one step of a user-input request made by a tool of turn t
InputStep(t) ==
  \/ RequestUserInput(t)
  \/ ResolveInput(t)

\* An Agent whose prompt() is called up to MaxTurns times, a call being
\* possible while an earlier one is still running, and abort() at any time.
Next ==
  \/ LoadExtension
  \/ LoadFails
  \/ Abort
  \/ \E t \in Turns : TurnStep(t)

Spec == Init /\ [][Next]_vars

\* An Agent running one turn, with a caller that keeps the array returned
\* by getMessages() and mutates it and the objects in it.
NextSnap ==
  \/ LoadExtension
  \/ LoadFails
  \/ Abort
  \/ TurnStep(1)
  \/ GetMessages
  \/ SnapPop
  \/ SnapPush
  \/ \E i \in 1..3 : SnapSetContent(i)

SpecSnap == Init /\ [][NextSnap]_vars

\* An Agent running one turn whose tools ask for user input, with a UI
\* that installs and replaces the user-input handler at any time.
NextInput ==
  \/ LoadExtension
  \/ LoadFails
  \/ \E h \in Handlers : SetUserInputHandler(h)
  \/ Abort
  \/ TurnStep(1)
  \/ InputStep(1)

SpecInput == Init /\ [][NextInput]_vars

\* An Agent whose extensions load while it is used: each extension sets
\* itself up at once or across a suspension, and may fail either way.
NextLoad ==
  \/ LoadExtension
  \/ LoadFails
  \/ LoadStart
  \/ LoadFinish
  \/ LoadRejects
  \/ Ready
  \/ \E h \in Handlers : SetUserInputHandler(h)
  \/ Abort
  \/ TurnStep(1)

SpecLoad == Init /\ [][NextLoad]_vars

\* one step of a turn t whose text is any of PromptTexts and whose model
\* answers with text only
PromptStep(t) ==
  \/ Prompt(t)
  \/ PromptFail(t)
  \/ \E text \in PromptTexts : PromptStart(t, text)
  \/ TextDelta(t)
  \/ StreamEnd(t)
  \/ TransportError(t)
  \/ AbortRaise(t)
  \/ Complete(t)
  \/ NextFetch(t)

\* An Agent whose prompt() is called with plain texts and slash commands.
NextPrompt ==
  \/ LoadExtension
  \/ LoadFails
  \/ Abort
  \/ \E t \in Turns : PromptStep(t)

SpecPrompt == Init /\ [][NextPrompt]_vars

\* one step of a turn t whose model answers with text only and whose
\* request may fail at any point of the stream
FailStep(t) ==
  \/ Prompt(t)
  \/ PromptFail(t)
  \/ \E text \in Texts : PromptStart(t, text)
  \/ TextDelta(t)
  \/ StreamEnd(t)
  \/ TransportFails(t)
  \/ SurfaceError(t)
  \/ AbortRaise(t)
  \/ Complete(t)
  \/ NextFetch(t)

\* An Agent with its extensions' listeners, running turns one after the
\* other over a connection that may fail.
NextFail ==
  \/ LoadExtension
  \/ LoadFails
  \/ Abort
  \/ \E t \in Turns : FailStep(t)

SpecFail == Init /\ [][NextFail]_vars

\* An ExtensionRegistry whose listeners are subscribed and unsubscribed at
\* any time, also by a listener that emit() is calling.
NextSub ==
  \/ \E handler \in ListenerFns : On(handler)
  \/ \E k \in 1..MaxSubs : Unsubscribe(k)
  \/ EmitStart
  \/ \E throws \in BOOLEAN : Deliver(throws)
  \/ EmitEnd

SpecSub == Init /\ [][NextSub]_vars

\* The Chat component: the user types and submits, React renders at any
\* time after a state change, turns end, tools ask for user input and the
\* user submits the form shown.
NextChat ==
  \/ Render
  \/ \E text \in Typed : Change(text)
  \/ ChatHandleSubmit
  \/ ChatTurnOver
  \/ \E r \in RequestIds : ChatRequest(r)
  \/ handleUserInputSubmit

SpecChat == Init /\ [][NextChat]_vars

\* The user-input forms of the two presentation layers, shown for requests
\* of one to MaxFields fields, filled in and submitted.
NextForm ==
  \/ \E ui \in Integrations, fs \in FormRequests : ShowForm(ui, fs)
  \/ \E i \in 1..MaxFields, v \in {"yes", "no"} : ConfirmClick(i, v)
  \/ \E i \in 1..MaxFields : CheckboxChange(i)
  \/ \E i \in 1..MaxFields, text \in Typed : TypeText(i, text)
  \/ handleSubmit
  \/ submitAnswer

SpecForm == Init /\ [][NextForm]_vars

\* A SkillRegistry seeded by the constructor, then used by callers and by
\* the read_skill tool.
InitSkills == (\E skills \in SkillConfigs : Constructed(skills)) /\ NoCalls

NextSkills ==
  \/ \E skill \in SkillPool : RegisterSkill(skill)
  \/ \E skills \in SkillConfigs : RegisterAllSkills(skills)
  \/ \E name \in SkillNames : ReadSkill(name)

SpecSkills == InitSkills /\ [][NextSkills]_vars

\* An Agent whose tool list is read while extensions load and register
\* tools and while skills are registered.
NextToolList ==
  \/ LoadExtension
  \/ LoadFails
  \/ \E name \in LateToolNames : RegisterTool(name)
  \/ \E skill \in SkillPool : RegisterSkill(skill)
  \/ AccessTools

SpecTools == InitSkills /\ [][NextToolList]_vars

\* A PromptTemplateRegistry seeded by the constructor, whose expand() is
\* called on one input.
InitExpand ==
  /\ Constructed(ConfigSkills)
  /\ expandInput \in ExpandInputs
  /\ expandResult = NotCalled

NextExpand == Expand

SpecExpand == InitExpand /\ [][NextExpand]_vars

\* A VirtualFS used by callers (agent.fs) and by the built-in tools; the
\* normalization of arbitrary paths is exercised while it is empty.
NextFs ==
  \/ \E path \in AllPaths : files = {} /\ Normalize(path)
  \/ \E path \in FsPaths : \E content \in Contents : FsWrite(path, content)
  \/ \E path \in FsPaths : FsRead(path)
  \/ \E path \in FsPaths : FsDelete(path)
  \/ \E path \in FsPaths : FsList(path)
  \/ \E path \in FsPaths : \E oldText \in OldTexts : \E newText \in NewTexts :
        EditTool(path, oldText, newText)
  \/ \E path \in FsPaths : ReadTool(path)

SpecFs == Init /\ [][NextFs]_vars

\* runAgent called on its own and consumed to its end, with a signal that
\* may fire at any moment.
NextRun ==
  \/ RunAgent
  \/ Signal
  \/ SendRequest
  \/ RunAbortRaise
  \/ RunTextDelta
  \/ RunTransportError
  \/ RunStreamEnd
  \/ \E n \in {1, MaxCalls} : RunStreamEndTools(n)
  \/ YieldToolStart
  \/ StartExecutions
  \/ \E i \in 1..MaxCalls : \E outcome \in Outcomes :
        ExecutionSettles(i, outcome)
  \/ CollectResults
  \/ YieldToolEnd
  \/ FeedBack

SpecRun == Init /\ [][NextRun]_vars

\* runAgent with a consumer that keeps asking for events, a network that
\* eventually answers and tools that eventually return or throw.
NextRunOn ==
  \/ RunAgent
  \/ Signal
  \/ SendRequest
  \/ RunAbortRaise
  \/ RunTextDelta
  \/ RunTransportError
  \/ RunStreamEnd
  \/ \E n \in {1, MaxCalls} : RunStreamEndTools(n)
  \/ YieldToolStart
  \/ StartExecutions
  \/ \E i \in 1..MaxCalls : \E outcome \in {"ok", "threw"} :
        ExecutionSettles(i, outcome)
  \/ CollectResults
  \/ YieldToolEnd
  \/ FeedBack

FairSpecRun == Init /\ [][NextRunOn]_vars /\ WF_vars(NextRunOn)

\* ------------------------------------------------------------ properties
\* the step by which the prompt() generator of turn t returns normally
Completes(t) == pc[t] = "yielded" /\ pc'[t] = "done"

\* the same, after runAgent ended the turn with turn_end
CompletesSuccessfully(t) == Completes(t) /\ yieldedEv[t] = TurnEndEv

AssistantCount(msgs) ==
  Cardinality({i \in DOMAIN msgs : msgs[i].role = "assistant"})

\* C1 (as stated): when a prompt() call completes successfully, history
\* ends with one new assistant message whose content is the concatenation,
\* in order, of the text_delta deltas the caller observed in the turn.
C1_Original ==
  [][\A t \in Turns :
       CompletesSuccessfully(t) =>
         messages' = Append(messages, Message("assistant", observed[t]))]_vars

\* C1 (amended): when a prompt() call completes, it appends exactly one
\* assistant message, last in history, whose content is the concatenation,
\* in order, of the deltas observed in the turn, provided that concatenation
\* is non-empty; it appends nothing when it is empty; and no other step
\* adds an assistant message.
C1_TurnFinalization ==
  [][/\ \A t \in Turns :
          Completes(t) =>
            messages' = IF observed[t] # <<>>
                        THEN Append(messages,
                                    Message("assistant", observed[t]))
                        ELSE messages
     /\ AssistantCount(messages') # AssistantCount(messages) =>
          \E t \in Turns : Completes(t)]_vars

C1_Witness ==
  /\ pc[1] = "done"
  /\ Len(messages) = 3
  /\ messages[3] = Message("assistant", <<"a", "b">>)

\* C2 (as stated): a turn that was streaming when abort() was called never
\* emits turn_end.
C2_Original ==
  \A t \in abortedMid : yieldedEv[t].type # "turn_end"

\* C3: every step that ends a prompt() turn, by completion, by an error
\* thrown or by cancellation, leaves the cancellation handle null.
C3_GuaranteedCleanup ==
  [][\A t \in Turns :
       (pc[t] \in Active /\ pc'[t] \in Terminal) =>
         abortController' = Null]_vars

C3_Witness ==
  /\ pc[1] = "aborted"
  /\ pc[2] = "threw"
  /\ lastEmit.delivered # lastEmit.to
  /\ abortController = Null

\* C4 (as stated): at most one prompt() turn is past its user message and
\* not yet ended; a call made while another turn is active is rejected.
C4_Original ==
  Cardinality({t \in Turns : pc[t] \in {"running", "yielded"}}) <= 1

\* C5 (as stated): nothing a caller does to the value getMessages()
\* returned changes the Agent's history.
C5_Original ==
  [][(SnapPop \/ SnapPush \/ \E i \in 1..3 : SnapSetContent(i)) =>
       messages' = messages]_vars

\* C6: history is never empty and its first element is the system message
\* built by the constructor.
C6_SystemMessageFirst ==
  /\ Len(messages) >= 1
  /\ messages[1] = Message("system", SystemPrompt)

C6_Witness ==
  /\ Len(messages) = 5
  /\ pc[1] = "done"
  /\ pc[2] = "done"
  /\ messages[1] = Message("system", SystemPrompt)

\* C7: every step leaves the earlier history as a prefix of the later one.
C7_AppendOnly == [][IsPrefix(messages, messages')]_vars

C7_Witness ==
  /\ Len(messages) >= 4
  /\ messages[Len(messages)].role = "assistant"
  /\ \E t \in Turns : pc[t] = "yielded"

\* C8 (as stated): every emit() reaches all the listeners it was for, a
\* throwing listener included.
C8_Original == lastEmit.delivered = lastEmit.to

C10_NoHandlerRejects ==
  [][\A t \in Turns :
       (inputReq[t] = "none" /\ inputReq'[t] # "none"
          /\ userInputHandler = Null) =>
         inputReq'[t] = "rejected"]_vars

C10_Witness ==
  /\ inputReq[1] = "rejected"
  /\ servedBy[1] = Null
  /\ userInputHandler = Null

\* the step by which a tool of turn t calls requestUserInput()
Requests(t) == inputReq[t] = "none" /\ inputReq'[t] # "none"

\* C11: setUserInputHandler(h) makes h the one installed handler, whatever
\* was installed before and whether or not loading is over; every
\* requestUserInput() call is served by the handler installed at that
\* moment, and a request already made stays with the handler it went to.
C11_LastWriteWins ==
  [][/\ userInputHandler' = lastHandler'
     /\ \A t \in Turns :
          /\ Requests(t) => servedBy'[t] = userInputHandler
          /\ (Requests(t) /\ userInputHandler # Null) =>
               inputReq'[t] = "pending"
          /\ (inputReq[t] = "pending" /\ inputReq'[t] # "none") =>
               servedBy'[t] = servedBy[t]]_vars

C11_Witness ==
  /\ ready = "resolved"
  /\ inputReq[1] = "resolved"
  /\ servedBy[1] = 2
  /\ userInputHandler = 1

\* the extensions in the order they were configured
RegistrationOrder(n) == [k \in 1..n |-> k]

\* C12 (as stated): once load() has settled, every configured extension
\* has been called exactly once, in registration order.
C12_Original ==
  ready # "pending" => invoked = RegistrationOrder(Len(ConfigExtensions))

\* C12 (amended): load() calls the extensions in registration order, none
\* twice, and calls one only when every extension before it has finished
\* its setup; when load() resolves every extension has been called exactly
\* once; once an extension has failed no further extension is called.
C12_LoadInOrder ==
  [][/\ invoked' = RegistrationOrder(Len(invoked'))
     /\ Len(invoked') > Len(invoked) =>
          /\ extRunning = Null
          /\ loadIdx = Len(invoked)
          /\ Len(eventListeners) = Len(invoked)
     /\ ready' = "resolved" =>
          invoked' = RegistrationOrder(Len(ConfigExtensions))
     /\ ready = "rejected" => invoked' = invoked]_vars

C12_Witness ==
  /\ ready = "resolved"
  /\ invoked = <<1, 2>>
  /\ eventListeners = <<1, 2>>
  /\ extTools = <<"ask_user", "run_code">>

\* C13: when an extension throws or rejects during load, the failure is the
\* outcome of load: _ready is rejected, never resolved, and every ready()
\* call rejects; the Agent was constructed before and stays usable as an
\* object (its history holds the system message).
C13_FailurePropagates ==
  /\ failed # {} =>
       /\ ready = "rejected"
       /\ \A k \in 1..Len(readySeen) : readySeen[k] = "rejected"
  /\ ready = "resolved" => failed = {}
  /\ Len(messages) >= 1

C13_Witness ==
  /\ failed = {2}
  /\ ready = "rejected"
  /\ readySeen = <<"rejected", "rejected">>
  /\ extTools = <<"ask_user", "run_code">>

\* C14: a ready() call settles only once loading is over, resolving only
\* when every extension has finished its setup; all ready() calls have the
\* same outcome, that of load(); and a ready() call runs no extension and
\* leaves the tools, the listeners and the history as they were.
C14_ReadyIdempotent ==
  [][/\ \A k \in 1..Len(readySeen') : readySeen'[k] = ready'
     /\ (readySeen' # <<>> /\ ready' = "resolved") =>
          /\ loadIdx' = Len(ConfigExtensions)
          /\ extRunning' = Null
          /\ Len(eventListeners') = Len(ConfigExtensions)
     /\ Len(readySeen') > Len(readySeen) =>
          /\ ready # "pending"
          /\ UNCHANGED << invoked, extTools, eventListeners, messages,
                          ready, loadIdx >>]_vars

C14_Witness ==
  /\ readySeen = <<"resolved", "resolved">>
  /\ invoked = <<1, 2>>
  /\ Len(messages) >= 2

\* C15: every access to Agent.tools returns the built-in tools, then the
\* tools extensions have registered up to that moment, in registration
\* order, then read_skill if and only if a skill is registered then.
C15_ToolsRecomputed ==
  [][toolsSeen' # toolsSeen =>
       toolsSeen' = BuiltinTools \o extTools
                      \o (IF skillReg # <<>> THEN <<"read_skill">>
                          ELSE <<>>)]_vars

C15_Witness ==
  toolsSeen = <<"read", "write", "edit", "list", "ask_user", "run_code",
                "search", "read_skill">>

\* C16 (as stated): the tool list Agent.tools returns, which is the list
\* prompt() hands to the streaming client, never holds a name twice.
C16_Original ==
  \A i, j \in DOMAIN toolsSeen : i # j => toolsSeen[i] # toolsSeen[j]

\* a skill with every required field
Valid(skill) ==
  skill.name # "" /\ skill.description # "" /\ skill.content # ""

\* the first valid skill of the given name in an array of skills
FirstValid(skills, name) ==
  LET at == {i \in DOMAIN skills : Valid(skills[i]) /\ skills[i].name = name}
  IN {skills[i] : i \in {k \in at : \A m \in at : k <= m}}

\* C17: the registry never holds two skills of one name, and a skill once
\* stored is never replaced or removed by a later register or registerAll:
\* the skill retrievable under a name is the first stored under it.
C17_FirstSkillWins ==
  /\ [](\A name \in SkillNames :
          /\ Cardinality(get(skillReg, name)) <= 1
          /\ FirstValid(configSkills, name) # {} =>
               get(skillReg, name) = FirstValid(configSkills, name))
  /\ [][/\ IsPrefix(skillReg, skillReg')
        /\ \A name \in SkillNames :
             get(skillReg, name) # {} =>
               get(skillReg', name) = get(skillReg, name)]_vars

C17_Witness ==
  /\ configSkills = << Skill("code-review", "when", "steps-1"),
                       Skill("code-review", "when", "steps-2") >>
  /\ get(skillReg, "code-review") = {Skill("code-review", "when", "steps-1")}
  /\ get(skillReg, "tdd") = {Skill("tdd", "when", "steps-2")}

\* C18: no skill lacking a name, a description or a content is ever stored,
\* by the constructor or later; an invalid skill in an array does not stop
\* the valid ones after it from being stored; and the Agent is constructed
\* whatever skills it is given.
C18_InvalidSkillSkipped ==
  /\ [](/\ \A i \in DOMAIN skillReg : Valid(skillReg[i])
        /\ \A name \in SkillNames :
             FirstValid(configSkills, name) # {} => get(skillReg, name) # {}
        /\ Len(messages) >= 1
        /\ messages[1].role = "system")
  /\ [][\A i \in DOMAIN skillReg' :
          i > Len(skillReg) => Valid(skillReg'[i])]_vars

C18_Witness ==
  /\ configSkills = << Skill("tdd", "", "steps-1"),
                       Skill("tdd", "when", "steps-2") >>
  /\ skillReg = << Skill("tdd", "when", "steps-2") >>
  /\ messages[1].role = "system"

\* the pieces of text that make up a text
Pieces(text) == {text[i] : i \in DOMAIN text}

\* C19: the system message of an Agent constructed with no registered skill
\* is the base prompt and nothing else; that of an Agent constructed with
\* registered skills is the base prompt followed by a non-empty fragment
\* in which the name and the description of each of them occur.
C19_SkillFragment ==
  LET registered == registerAll(<<>>, configSkills)
      content == messages[1].content
      fragment == SubSeq(content, Len(BasePrompt) + 1, Len(content))
  IN /\ messages[1].role = "system"
     /\ IsPrefix(BasePrompt, content)
     /\ registered = <<>> => content = BasePrompt
     /\ registered # <<>> =>
          /\ fragment # <<>>
          /\ \A i \in DOMAIN registered :
               /\ registered[i].name \in Pieces(fragment)
               /\ registered[i].description \in Pieces(fragment)

C19_Witness ==
  /\ configSkills = << Skill("tdd", "when", "steps-1"),
                       Skill("code-review", "when", "steps-2") >>
  /\ {"tdd", "code-review", "when"} \subseteq Pieces(messages[1].content)
  /\ readResult # NoResult

\* C20: executing read_skill with a registered name returns that skill's
\* content with isError false; with any other name it returns isError true
\* and a content that names the skill asked for and lists every registered
\* name; either way the registry is left as it was.
C20_ReadSkill ==
  [][\A name \in SkillNames :
       ReadSkill(name) =>
         /\ skillReg' = skillReg
         /\ \A s \in get(skillReg, name) :
              readResult' = ToolResult(<<s.content>>, FALSE)
         /\ get(skillReg, name) = {} =>
              /\ readResult'.isError
              /\ name \in Pieces(readResult'.content)
              /\ \A i \in DOMAIN skillReg :
                   skillReg[i].name \in Pieces(readResult'.content)]_vars

C20_Witness ==
  /\ readResult.isError
  /\ {"unknown", "tdd", "code-review"} \subseteq Pieces(readResult.content)
  /\ Len(skillReg) = 2


UserCount(msgs) ==
  Cardinality({i \in DOMAIN msgs : msgs[i].role = "user"})

\* the turns whose prompt() call has gone past awaiting readiness
PastReady == {t \in Turns : pc[t] \notin {"idle", "awaitReady"}}

\* C21 as stated: every prompt() call that has got past its first await has
\* appended exactly one user message.
C21_Original == UserCount(messages) = Cardinality(PastReady)

\* the content the claim gives the user message of prompt(text)
ExpectedContent(text) ==
  IF text # <<>> /\ Head(text) \in SlashCommands
                 /\ Head(text) \in DOMAIN ConfigTemplates
  THEN expand(text)
  ELSE text

\* C21: each prompt(text) call whose wait for readiness succeeds appends
\* exactly one user message, at the end of history and before any event of
\* the turn is yielded: the expanded body when text is /name of a registered
\* template, text verbatim otherwise; a call whose wait for readiness fails
\* appends nothing.
C21_UserMessage ==
  /\ [](UserCount(messages) =
          IF ready = "resolved" THEN Cardinality(PastReady) ELSE 0)
  /\ [][ /\ \A t \in Turns : \A text \in PromptTexts :
              PromptStart(t, text) =>
                (/\ messages' =
                      Append(messages, Message("user", ExpectedContent(text)))
                 /\ yieldedEv[t] = NoEvent /\ yieldedEv'[t] = NoEvent
                 /\ observed'[t] = <<>>)
         /\ (UserCount(messages') # UserCount(messages)) =>
               (\E t \in Turns : pc[t] = "awaitReady" /\ pc'[t] = "running")
       ]_vars

\* two calls were made, one with a registered name and no argument and one
\* with an unregistered name, and an event has been yielded
C21_Witness ==
  /\ \E i \in DOMAIN messages : messages[i] = Message("user", <<"hello">>)
  /\ \E i \in DOMAIN messages :
        messages[i] = Message("user", <<"/unknown", "bob">>)
  /\ \E t \in Turns : yieldedEv[t] # NoEvent

\* the argument at position n (1-indexed), the empty text if there is none
ArgAt(args, n) == IF n \in DOMAIN args THEN <<args[n]>> ELSE <<>>

\* up to l arguments starting at position n (1-indexed)
ArgsFrom(args, n, l) ==
  LET avail == IF Len(args) >= n THEN Len(args) - n + 1 ELSE 0
      count == IF l <= avail THEN l ELSE avail
  IN [i \in 1..count |-> args[n + i - 1]]

\* C22: expand(input) returns null when the input does not start with /name
\* or names no registered template; otherwise it returns the body with $N
\* replaced by argument N, $@ and $ARGUMENTS by all the arguments, ${@:N}
\* by the arguments from position N to the end and ${@:N:L} by L arguments
\* from position N, a missing position giving the empty string; so
\* "/scaffold ts myapp with tests" gives
\* "Project: ts (myapp). Extra: with tests".
C22_Expansion ==
  expandResult # NotCalled =>
    LET input == expandInput
        args == Tail(input)
        all == Len(args)
    IN /\ (input = <<>>) => expandResult = NoExpansion
       /\ (input # <<>> /\ Head(input) = "hello")
            => expandResult = NoExpansion
       /\ (input # <<>> /\ Head(input) = "/unknown")
            => expandResult = NoExpansion
       /\ (input # <<>> /\ Head(input) = "/greet")
            => expandResult = <<"hello">> \o ArgAt(args, 1)
       /\ (input # <<>> /\ Head(input) = "/scaffold")
            => expandResult =
                 <<"Project:">> \o ArgAt(args, 1) \o <<"(">> \o
                 ArgAt(args, 2) \o <<").", "Extra:">> \o
                 ArgsFrom(args, 3, all)
       /\ (input # <<>> /\ Head(input) = "/slice")
            => expandResult =
                 ArgsFrom(args, 2, 2) \o <<"|">> \o args \o <<"|">> \o
                 args \o <<"|">> \o ArgAt(args, 3) \o <<"|">> \o
                 ArgsFrom(args, 2, all)
       /\ (input = <<"/scaffold", "ts", "myapp", "with", "tests">>)
            => expandResult = <<"Project:", "ts", "(", "myapp", ").",
                                "Extra:", "with", "tests">>

\* the example of the claim was expanded
C22_Witness ==
  /\ expandInput = <<"/scaffold", "ts", "myapp", "with", "tests">>
  /\ expandResult = <<"Project:", "ts", "(", "myapp", ").", "Extra:",
                      "with", "tests">>

\* the path has canonical form: one leading separator, no separator
\* repeated, none at the end unless the path is the root
Canonical(path) ==
  /\ path # <<>> /\ path[1] = "/"
  /\ \A i \in 1..(Len(path) - 1) : \lnot (path[i] = "/" /\ path[i + 1] = "/")
  /\ Len(path) > 1 => path[Len(path)] # "/"

\* what is stored under the entry that the path names
StoredAt(fs, path) == {f.content : f \in {g \in fs : g.path = normalize(path)}}

\* C23: normalizing a path twice gives the same as normalizing it once,
\* and every VirtualFS operation normalizes its path first, so that two
\* strings that normalize identically name the same entry: after
\* write("a//b", c), read("/a/b") returns c.
C23_NormalizedPaths ==
  /\ [](fsCall.op = "normalize" =>
          /\ normalize(fsCall.value) = fsCall.value
          /\ Canonical(fsCall.value))
  /\ [](\A f \in files :
          /\ normalize(f.path) = f.path
          /\ \A g \in files : g.path = f.path => g = f)
  /\ [][ /\ fsCall'.op = "write" =>
              \A q \in FsPaths :
                normalize(q) = normalize(fsCall'.path) =>
                  fsRead(files', q) = {fsCall'.arg}
         /\ fsCall'.op = "read" =>
              \A q \in FsPaths :
                normalize(q) = normalize(fsCall'.path) =>
                  fsCall'.value = StoredAt(files, q)
         /\ (fsCall.op = "write" /\ fsCall.path = <<"a", "/", "/", "b">> /\
             fsCall'.op = "read" /\ fsCall'.path = <<"/", "a", "/", "b">>) =>
              fsCall'.value = {fsCall.arg}
         /\ fsCall'.op = "delete" =>
              \A q \in FsPaths :
                normalize(q) = normalize(fsCall'.path) =>
                  fsRead(files', q) = {}
       ]_vars

\* write("a//b", c) has just been called, c is what read("/a/b") returns
\* and no other entry is stored
C23_Witness ==
  /\ fsCall = FsCall("write", <<"a", "/", "/", "b">>, <<"x", "y">>, <<>>)
  /\ fsRead(files, <<"/", "a", "/", "b">>) = {<<"x", "y">>}
  /\ Cardinality(files) = 1

\* old occurs verbatim in content
Occurs(content, old) ==
  \E i \in 1..Len(content) :
    /\ i + Len(old) - 1 <= Len(content)
    /\ \A k \in 1..Len(old) : content[i + k - 1] = old[k]

\* C24: an edit tool call whose oldText does not occur verbatim in the
\* target file, or whose target file is missing, returns isError true and
\* leaves the stored content of every file unchanged; any other edit call
\* returns without the error flag.
C24_EditNonDestructive ==
  [][ (fsCall'.op = "edit") =>
        LET stored == StoredAt(files, fsCall'.path)
            fails == \/ stored = {}
                     \/ \E c \in stored : \lnot Occurs(c, fsCall'.arg)
        IN /\ fails => (fsCall'.value.isError /\ files' = files)
           /\ \lnot fails => \lnot fsCall'.value.isError
    ]_vars

\* an edit of an existing file failed because oldText is not in it
C24_Witness ==
  /\ fsCall.op = "edit"
  /\ fsCall.value.isError
  /\ StoredAt(files, fsCall.path) # {}
  /\ Cardinality(files) >= 2

IsStart(e) == e.type = "tool_call_start"
IsEnd(e) == e.type = "tool_call_end"
IsToolTurn(m) == m.role = "tool"

\* the tool_call_start and tool_call_end events yielded so far, and the
\* tool-result turns prepared for the model, each in order
Starts == SelectSeq(runEvents, IsStart)
Ends == SelectSeq(runEvents, IsEnd)
ToolTurns == SelectSeq(apiMessages, IsToolTurn)

\* the result was produced by the execution of the call with this id
ResultOf(result, id) == result # NoResult /\ result.content[2] = id

\* C25: the tool_call_start events of a round appear in the order the
\* model declared the calls, and whatever order the executions settle in,
\* every tool_call_end event and every tool-result turn fed back to the
\* model carries the result of the call with the same id, in call order.
C25_ToolCallOrdering ==
  /\ runCalls # <<>> =>
       LET n == Cardinality({k \in DOMAIN Starts :
                   \E i \in DOMAIN runCalls :
                      Starts[k].toolCall.id = runCalls[i].id})
       IN /\ n <= Len(runCalls)
          /\ \A k \in 1..n :
               Starts[Len(Starts) - n + k].toolCall.id = runCalls[k].id
  /\ Len(Ends) <= Len(Starts)
  /\ \A k \in DOMAIN Ends :
       /\ Ends[k].toolCall.id = Starts[k].toolCall.id
       /\ ResultOf(Ends[k].toolCall.result, Ends[k].toolCall.id)
  /\ Len(ToolTurns) <= Len(Ends)
  /\ \A k \in DOMAIN ToolTurns :
       /\ ToolTurns[k].ids = <<Ends[k].toolCall.id>>
       /\ ToolTurns[k].result = Ends[k].toolCall.result
       /\ ResultOf(ToolTurns[k].result, ToolTurns[k].ids[1])

\* the second execution of a round of two calls settled first, and both
\* tool_call_end events have been yielded
C25_Witness ==
  /\ runPc = "ending"
  /\ settled = <<2, 1>>
  /\ runNext > Len(runCalls)
  /\ Len(Ends) = 2

\* C26: every tool_call_end event carries a ToolCall whose result is set,
\* a ToolCall gets its result attached exactly once (it has one
\* tool_call_end event and an attached result never changes), and each
\* tool_call_end event comes after a tool_call_start event for the same id.
C26_EndHasResult ==
  /\ [](\A p \in DOMAIN runEvents :
          IsEnd(runEvents[p]) =>
            /\ runEvents[p].toolCall.result # NoResult
            /\ \E q \in 1..(p - 1) :
                 /\ IsStart(runEvents[q])
                 /\ runEvents[q].toolCall.id = runEvents[p].toolCall.id
            /\ \A q \in DOMAIN runEvents :
                 (IsEnd(runEvents[q]) /\
                  runEvents[q].toolCall.id = runEvents[p].toolCall.id)
                   => q = p)
  /\ [][\A i \in DOMAIN runCalls :
          runCalls[i].result # NoResult =>
            \/ runCalls' = <<>>
            \/ i \in DOMAIN runCalls' /\ runCalls'[i] = runCalls[i]]_vars

\* a tool_call_end event with a failure as its result has been yielded
C26_Witness ==
  \E p \in DOMAIN runEvents :
    /\ IsEnd(runEvents[p])
    /\ runEvents[p].toolCall.result.isError

IsFinal(e) == e.type \in {"turn_end", "error"}

Failure(result) == result.content[1] \in {"failed", "threw"}

\* C28: a failure of a tool execution, thrown by execute or returned by it
\* as a business failure, always becomes a ToolResult with isError true
\* that is fed back to the model; it yields no error event and does not end
\* the turn.
C28_ToolFailureIsResult ==
  /\ [](\A i \in DOMAIN execResult :
          (execResult[i] # NoResult /\ Failure(execResult[i]))
            => execResult[i].isError)
  /\ [](\A k \in DOMAIN ToolTurns :
          Failure(ToolTurns[k].result) => ToolTurns[k].result.isError)
  /\ [][(settled' # settled /\ settled' # <<>>) =>
           /\ runEvents' = runEvents
           /\ runPc' = "executing"]_vars
  /\ [][(runPc = "ending" /\ runPc' # "ending") =>
           /\ runPc' = "request"
           /\ runEvents' = runEvents
           /\ \A i \in DOMAIN runCalls :
                \E k \in DOMAIN apiMessages' :
                  /\ k > Len(apiMessages)
                  /\ apiMessages'[k] =
                       ApiMessage("tool", <<runCalls[i].id>>, execResult[i])
         ]_vars
  /\ [][(runEvents' # runEvents /\
          runEvents'[Len(runEvents')].type = "error") =>
           runPc = "streaming"]_vars

\* one execution threw and another returned a failure, both were fed back
\* with isError and the next request has been sent
C28_Witness ==
  /\ runRound = 2
  /\ \E k \in DOMAIN ToolTurns :
       ToolTurns[k].result.content[1] = "threw" /\ ToolTurns[k].result.isError
  /\ \E k \in DOMAIN ToolTurns :
       ToolTurns[k].result.content[1] = "failed" /\ ToolTurns[k].result.isError
  /\ \A p \in DOMAIN runEvents : runEvents[p].type # "error"

\* C29: cancellation is an outcome of its own: a turn whose signal has
\* fired is never handed an error event, neither its caller nor the
\* extension listeners, and it ends by raising the abort; no turn that was
\* handed an error event ends that way.
C29_CancellationDistinct ==
  [][\A t \in Turns :
       /\ (pc[t] = "running" /\ t \in aborted /\ pc'[t] # pc[t]) =>
            /\ yieldedEv'[t] # ErrorEv /\ emittedEv'[t] # ErrorEv
            /\ ra[t] = "fetch" => pc'[t] = "aborted"
       /\ (pc[t] # "aborted" /\ pc'[t] = "aborted") =>
            /\ t \in aborted
            /\ yieldedEv[t] # ErrorEv /\ emittedEv[t] # ErrorEv
            /\ yieldedEv'[t] = NoEvent /\ emittedEv'[t] = NoEvent
            /\ messages' = messages
       /\ (yieldedEv[t] = ErrorEv \/ emittedEv[t] = ErrorEv) =>
            pc'[t] # "aborted"
    ]_vars

\* a turn has ended by raising the abort while an extension listener was
\* subscribed, and history holds its user message and nothing after it
C29_Witness ==
  /\ \E t \in Turns : pc[t] = "aborted"
  /\ eventListeners # <<>>
  /\ messages[Len(messages)].role = "user"

\* C30: once the cancellation signal has fired no further request is sent
\* to the remote endpoint, while the tool executions that had been started
\* go on until they settle and their round is completed.
C30_NoRoundAfterCancel ==
  /\ [](signal.aborted => runRound = signal.requests)
  /\ [][signal.aborted =>
          /\ runRound' = runRound
          /\ runPc' = "streaming" => runPc = "streaming"
          /\ \A i \in DOMAIN execState :
               execState[i] = "running" =>
                 /\ runPc' \in {"executing", "ending"}
                 /\ execState'[i] \in {"running", "settled"}
          /\ (runPc \in {"executing", "ending"}) => runPc' # "raised"
       ]_vars

\* the signal fired while the tools of a round were executing; they all
\* settled, their tool_call_end events were yielded and the abort was
\* raised where the next request would have been sent
C30_Witness ==
  /\ signal.aborted /\ signal.at = "executing"
  /\ runPc = "raised"
  /\ Len(Ends) = MaxCalls
  /\ runRound = 1

\* the turn has met a transport failure: runAgent has caught it, or its
\* error event has been handed to the caller
Failed(t) ==
  \/ pc[t] = "running" /\ ra[t] = "failed"
  \/ pc[t] = "yielded" /\ yieldedEv[t] = ErrorEv

\* C31 (as stated): when a turn fails at the transport level after some
\* text has streamed, the error event is passed to the listeners and to the
\* caller, the user message stays in history, and the turn does not end
\* without the text that had arrived being appended to history as the
\* assistant message.
C31_Original ==
  [][\A t \in Turns :
       (Failed(t) /\ fullResponse[t] # <<>> /\ pc'[t] # pc[t]) =>
         /\ IsPrefix(messages, messages')
         /\ ra[t] = "failed" =>
              yieldedEv'[t] = ErrorEv /\ emittedEv'[t] = ErrorEv
         /\ pc'[t] \in Terminal =>
              messages' = Append(messages,
                                 Message("assistant", fullResponse[t]))
    ]_vars

\* C32 (as stated): whichever presentation layer showed the form, a confirm
\* field of a submitted response holds "yes" or "no".
C32_Original ==
  response # NotSubmitted =>
    \A i \in DOMAIN fields :
      fields[i].type = "confirm" => response[i] \in {"yes", "no"}

\* the tools the configured extensions register while they load
LoadedTools == {ConfigExtensions[k].tool : k \in DOMAIN ConfigExtensions}

\* C33: until every extension has finished loading, no prompt() call has
\* appended a user message, created a cancellation handle or called
\* runAgent; and the tool list a turn's runAgent was called with contains
\* every tool registered during load.
C33_WaitsForLoad ==
  /\ ready # "resolved" =>
       /\ UserCount(messages) = 0
       /\ abortController = Null
       /\ \A t \in Turns : pc[t] \in {"idle", "awaitReady", "threw"}
  /\ \A t \in Turns :
       /\ pc[t] \in {"idle", "awaitReady"} =>
            ra[t] = "none" /\ toolList[t] = <<>> /\ abortController # t
       /\ pc[t] \in {"running", "yielded"} =>
            /\ loadIdx = Len(ConfigExtensions) /\ extRunning = Null
            /\ LoadedTools \subseteq
                 {toolList[t][j] : j \in DOMAIN toolList[t]}

\* a turn is streaming after the load: both extensions' tools are in its
\* tool list, both listeners are subscribed, its user message is in history
C33_Witness ==
  /\ pc[1] = "running" /\ ra[1] = "fetch"
  /\ toolList[1] = BuiltinTools \o <<"ask_user", "run_code">>
  /\ eventListeners = <<1, 2>>
  /\ UserCount(messages) = 1

\* C34: a turn that completes after turn_end without having received any
\* text fragment leaves history as it is when it completes, so that the turn
\* added its user message only; no assistant message in history is empty.
C34_NoEmptyAssistant ==
  /\ [](\A i \in DOMAIN messages :
          messages[i].role = "assistant" => messages[i].content # <<>>)
  /\ [][\A t \in Turns :
          (CompletesSuccessfully(t) /\ ndeltas[t] = 0) =>
            /\ messages' = messages
            /\ messages[Len(messages)].role = "user"]_vars

\* the turn is over and history is the system message and its user message
C34_Witness ==
  /\ pc[1] = "done"
  /\ Len(messages) = 2
  /\ messages[2].role = "user"

\* C35: once extension loading has failed, history is the system message
\* alone, the cancellation handle is null and no turn has got past its wait
\* or been handed an event; every prompt() call that is waiting fails, and
\* no step changes history, the handle or the listeners, or invokes a
\* further extension.
C35_FailedLoadBlocksPrompt ==
  /\ [](ready = "rejected" =>
          /\ messages = <<Message("system", SystemPrompt)>>
          /\ abortController = Null
          /\ \A t \in Turns :
               /\ pc[t] \in {"idle", "awaitReady", "threw"}
               /\ yieldedEv[t] = NoEvent /\ emittedEv[t] = NoEvent
               /\ ra[t] = "none")
  /\ [][ready = "rejected" =>
          /\ UNCHANGED << messages, abortController, eventListeners,
                          extTools, invoked, failed >>
          /\ lastEmit' = lastEmit
          /\ \A t \in Turns :
               (pc[t] = "awaitReady" /\ pc'[t] # pc[t]) => pc'[t] = "threw"
       ]_vars

\* the first extension failed, the second was never invoked, and two
\* prompt() calls have failed leaving the session as it was constructed
C35_Witness ==
  /\ ready = "rejected"
  /\ failed = {1} /\ invoked = <<1>>
  /\ \A t \in Turns : pc[t] = "threw"
  /\ eventListeners = <<>>
  /\ Len(messages) = 1

\* C36 (as stated): whenever some turn is streaming, the cancellation
\* handle the Agent holds is that of a streaming turn.
C36_Original ==
  (\E t \in Turns : Streaming(t)) =>
    /\ abortController # Null
    /\ Streaming(abortController)

\* the listeners of the on() calls 1..n that were not unsubscribed, in
\* call order
RECURSIVE Kept(_)
Kept(n) ==
  IF n = 0 THEN <<>>
  ELSE IF n \in unsubscribed THEN Kept(n - 1)
       ELSE Append(Kept(n - 1), subs[n])

\* C37 (as stated): the listeners are those of the on() calls whose
\* unsubscribe function was not called, in subscription order: an
\* unsubscribe function removes its own subscription and no other.
C37_Original == eventListeners = Kept(Len(subs))

\* C38 (as stated): emit() calls the listeners that were subscribed when it
\* was called, each once, in order, and no other; when it has returned
\* without a listener throwing it has called all of them.
C38_Original ==
  /\ IsPrefix(lastEmit.delivered, lastEmit.to)
  /\ (emitIdx = 0 /\ \A i \in DOMAIN lastEmit.delivered :
                       lastEmit.delivered[i] \notin ThrowingListeners) =>
       lastEmit.delivered = lastEmit.to

\* C39 (as stated): through the Chat component at most one agent.prompt()
\* turn is in flight.
C39_Original == inFlight <= 1

\* C40 (as stated): no user-input request is lost: a promise the Chat
\* handler returned that is still pending is held by the pendingInput state
\* or by the form on the page, so that a submit resolves it.
C40_Original ==
  \A r \in RequestIds :
    promises[r] = "pending" =>
      pendingInput = r \/ rendered.pendingInput = r

====
